---- MODULE Spec2Model ----
(***************************************************************************)
(* Foreign-call emulation layer of the interpreter (src/src/fn_call.rs).   *)
(*                                                                         *)
(* One foreign call is one action: the dispatcher reads the arguments,     *)
(* runs the handler for the symbol, writes the destination and resumes the *)
(* stepper.  A handler that returns Err ends the run: the error propagates *)
(* through find_fn (`emulate_foreign_item(..)?`, line 45) to the stepper,  *)
(* so no foreign call follows a failed one.                                *)
(*                                                                         *)
(* The memory subsystem (allocate / deallocate / reallocate / copy) and    *)
(* the TLS table are collaborators of this layer; they are modelled as     *)
(* operators over the `memory` and `tls` records.                          *)
(***************************************************************************)
EXTENDS Integers, Sequences, FiniteSets, TLC

VARIABLES memory, env_vars, tls, host, set_values, ecx, last

vars == <<memory, env_vars, tls, host, set_values, ecx, last>>

---------------------------------------------------------------------------
(* Bounds of the model.                                                    *)

\* allocation ids the memory subsystem hands out in one run
MaxAllocs == 2
\* the TLS keys created in one run
MaxKeys == 1
\* allocations of a run that sets environment variables
MaxEnvAllocs == 3

\* call frames on the stack at one time
MaxFrames == 3
\* bytes drawn from the generator in one run
MaxDrawn == 4

\* this.pointer_size().bytes() / pointer_align.abi of the target (32-bit)
PointerSize == 4

\* size arguments (usize) the guest passes
SizeArgs == {0, 1, 2}
\* alignment arguments: 0 and 3 are no powers of two, 4 is the pointer
\* alignment, 8 is above it; posix_memalign is also given 2, a power of two
\* below the pointer size
AlignArgs == {0, 3, 4, 8}
PosixAlignArgs == AlignArgs \cup {2}
\* calloc's item count and item length
ItemArgs == {0, 1, 2}
\* HeapAlloc's flags (HEAP_ZERO_MEMORY is bit 3, 0x8)
FlagArgs == {0, 1, 8}

---------------------------------------------------------------------------
(* Scalars.  A Scalar is Raw{data} (an integer) or Ptr{alloc_id, offset}.  *)
(* id = 0 is Raw with data = off; id > 0 is a pointer into allocation id.  *)

Raw(n) == [id |-> 0, off |-> n]
Ptr(i, o) == [id |-> i, off |-> o]
Null == Raw(0)
\* no value (a destination that was not written)
NoVal == [id |-> -1, off |-> 0]

\* Scalar::is_null_ptr: a Ptr is never null
IsNullPtr(s) == s.id = 0 /\ s.off = 0

\* Scalar::to_ptr: the error it returns, "" for Ok (a function pointer,
\* id <= -2, is a Ptr as well)
ToPtrErr(s) ==
    IF s.id > 0 \/ s.id <= 0 - 2 THEN ""
    ELSE IF s.off = 0 THEN "InvalidNullPointerUsage"
    ELSE "ReadBytesAsPointer"

\* usize::is_power_of_two
IsPowerOfTwo(n) == n \in {1, 2, 4, 8, 16, 32, 64}

Min(a, b) == IF a < b THEN a ELSE b

\* an uninitialised byte
Undef == -1

---------------------------------------------------------------------------
(* The memory subsystem: alloc_map (live allocations), dead_alloc_map and  *)
(* the next allocation id.  dead_alloc_map is kept as the set of its keys: *)
(* the size and alignment it records are read by no operation of this     *)
(* layer.                                                                  *)

EmptyMemory == [alloc_map |-> <<>>, dead_alloc_map |-> {}, next_id |-> 1]

Insert(f, k, v) == [x \in DOMAIN f \cup {k} |-> IF x = k THEN v ELSE f[x]]
Remove(f, k) == [x \in DOMAIN f \ {k} |-> f[x]]

Live(m) == DOMAIN m.alloc_map

\* Memory::allocate: a fresh id, `size` uninitialised bytes
Allocate(m, size, align, kind) ==
    [m |-> [alloc_map |-> Insert(m.alloc_map, m.next_id,
                                 [kind |-> kind, align |-> align,
                                  bytes |-> [i \in 1..size |-> Undef]]),
            dead_alloc_map |-> m.dead_alloc_map,
            next_id |-> m.next_id + 1],
     ptr |-> Ptr(m.next_id, 0)]

\* Allocation::write_repeat / write_bytes at ptr (inside a live allocation)
WriteBytes(m, ptr, data) ==
    [m EXCEPT !.alloc_map[ptr.id].bytes =
        [i \in DOMAIN @ |->
            IF i > ptr.off /\ i <= ptr.off + Len(data)
            THEN data[i - ptr.off] ELSE @[i]]]

WriteRepeat(m, ptr, val, size) ==
    WriteBytes(m, ptr, [i \in 1..size |-> val])

\* Memory::check_ptr_access for a Ptr: liveness, bounds, then alignment
CheckPtrAccess(m, ptr, size, align) ==
    IF ptr.id \notin Live(m) THEN "DanglingPointerDeref"
    ELSE IF ptr.off + size > Len(m.alloc_map[ptr.id].bytes)
         THEN "PointerOutOfBounds"
    ELSE IF m.alloc_map[ptr.id].align < align \/ ptr.off % align # 0
         THEN "AlignmentCheckFailed"
    ELSE ""

\* Memory::copy: both accesses are checked, then the bytes (and their
\* definedness) are copied
Copy(m, src, src_align, dest, dest_align, size) ==
    LET e1 == CheckPtrAccess(m, src, size, src_align)
        e2 == CheckPtrAccess(m, dest, size, dest_align)
    IN  IF e1 # "" THEN [m |-> m, err |-> e1]
        ELSE IF e2 # "" THEN [m |-> m, err |-> e2]
        ELSE [m |-> WriteBytes(m, dest,
                       SubSeq(m.alloc_map[src.id].bytes,
                              src.off + 1, src.off + size)),
              err |-> ""]

\* no size and alignment given to deallocate (`None`)
NoSizeAlign == [size |-> -1, align |-> -1]

\* Memory::deallocate: the entry is taken out of alloc_map first
\* (`alloc_map.remove`), then kind, size and alignment are compared; only a
\* call that passes them records the allocation in dead_alloc_map
Deallocate(m, ptr, size_and_align, kind) ==
    IF ptr.off # 0 THEN [m |-> m, err |-> "DeallocateNonBasePtr"]
    ELSE IF ptr.id \notin Live(m) THEN [m |-> m, err |-> "DoubleFree"]
    ELSE
      LET alloc == m.alloc_map[ptr.id]
          removed == [m EXCEPT !.alloc_map = Remove(@, ptr.id)]
      IN  IF alloc.kind # kind
          THEN [m |-> removed, err |-> "DeallocatedWrongMemoryKind"]
          ELSE IF /\ size_and_align # NoSizeAlign
                  /\ \/ size_and_align.size # Len(alloc.bytes)
                     \/ size_and_align.align # alloc.align
          THEN [m |-> removed, err |-> "IncorrectAllocationInformation"]
          ELSE [m |-> [removed EXCEPT !.dead_alloc_map = @ \cup {ptr.id}],
                err |-> ""]

\* Memory::reallocate: "alloc, copy, dealloc"
Reallocate(m, ptr, old_size, old_align, new_size, new_align, kind) ==
    IF ptr.off # 0
    THEN [m |-> m, err |-> "ReallocateNonBasePtr", ptr |-> NoVal]
    ELSE
      LET a == Allocate(m, new_size, new_align, kind)
          c == Copy(a.m, ptr, old_align, a.ptr, new_align,
                    Min(old_size, new_size))
          d == Deallocate(c.m, ptr,
                          [size |-> old_size, align |-> old_align], kind)
      IN  IF c.err # "" THEN [m |-> c.m, err |-> c.err, ptr |-> NoVal]
          ELSE IF d.err # "" THEN [m |-> d.m, err |-> d.err, ptr |-> NoVal]
          ELSE [m |-> d.m, err |-> "", ptr |-> a.ptr]

---------------------------------------------------------------------------
(* The allocation helpers of the layer (fn_call.rs, lines 54-132).         *)

Ok(m, ret) == [m |-> m, err |-> "", msg |-> <<>>, ret |-> ret, out |-> NoVal]
Err(m, kind, msg) ==
    [m |-> m, err |-> kind, msg |-> msg, ret |-> NoVal, out |-> NoVal]

\* malloc without the `size == 0` branch
malloc_no_zero_check(m, size, zero_init) ==
    LET a == Allocate(m, size, PointerSize, "C")
    IN  [m |-> IF zero_init THEN WriteRepeat(a.m, a.ptr, 0, size) ELSE a.m,
         val |-> a.ptr]

\* malloc that never zero-fills
malloc_no_zero_init(m, size, zero_init) ==
    IF size = 0 THEN [m |-> m, val |-> Null]
    ELSE LET a == Allocate(m, size, PointerSize, "C")
         IN  [m |-> a.m, val |-> a.ptr]

\* fn malloc(size, zero_init) -> Scalar
malloc(m, size, zero_init) ==
    IF size = 0 THEN [m |-> m, val |-> Null]
    ELSE LET a == Allocate(m, size, PointerSize, "C")
         IN  [m |-> IF zero_init THEN WriteRepeat(a.m, a.ptr, 0, size)
                    ELSE a.m,
              val |-> a.ptr]

\* free without the null check
free_no_null_check(m, ptr) ==
    IF ToPtrErr(ptr) # "" THEN [m |-> m, err |-> ToPtrErr(ptr)]
    ELSE Deallocate(m, ptr, NoSizeAlign, "C")

\* free that deallocates with the language heap's memory kind
free_wrong_kind(m, ptr) ==
    IF ~IsNullPtr(ptr)
    THEN IF ToPtrErr(ptr) # "" THEN [m |-> m, err |-> ToPtrErr(ptr)]
         ELSE Deallocate(m, ptr, NoSizeAlign, "Rust")
    ELSE [m |-> m, err |-> ""]

\* fn free(ptr) -> InterpResult
free(m, ptr) ==
    IF ~IsNullPtr(ptr)
    THEN IF ToPtrErr(ptr) # "" THEN [m |-> m, err |-> ToPtrErr(ptr)]
         ELSE Deallocate(m, ptr, NoSizeAlign, "C")
    ELSE [m |-> m, err |-> ""]

\* realloc whose null branch allocates without the `new_size == 0` test
realloc_null_no_zero_check(m, old_ptr, new_size) ==
    IF IsNullPtr(old_ptr)
    THEN LET a == Allocate(m, new_size, PointerSize, "C")
         IN  [m |-> a.m, err |-> "", val |-> a.ptr]
    ELSE IF ToPtrErr(old_ptr) # ""
         THEN [m |-> m, err |-> ToPtrErr(old_ptr), val |-> NoVal]
    ELSE IF old_ptr.id \notin Live(m)
         THEN [m |-> m, err |-> "DanglingPointerDeref", val |-> NoVal]
    ELSE LET old_size == Len(m.alloc_map[old_ptr.id].bytes)
         IN  IF new_size = 0
             THEN LET d == Deallocate(m, old_ptr,
                               [size |-> old_size, align |-> PointerSize],
                               "C")
                  IN  [m |-> d.m, err |-> d.err,
                       val |-> IF d.err = "" THEN Null ELSE NoVal]
             ELSE LET r == Reallocate(m, old_ptr, old_size, PointerSize,
                                      new_size, PointerSize, "C")
                  IN  [m |-> r.m, err |-> r.err, val |-> r.ptr]

\* fn realloc(old_ptr, new_size) -> InterpResult<Scalar>
realloc(m, old_ptr, new_size) ==
    IF IsNullPtr(old_ptr)
    THEN IF new_size = 0 THEN [m |-> m, err |-> "", val |-> Null]
         ELSE LET a == Allocate(m, new_size, PointerSize, "C")
              IN  [m |-> a.m, err |-> "", val |-> a.ptr]
    ELSE IF ToPtrErr(old_ptr) # ""
         THEN [m |-> m, err |-> ToPtrErr(old_ptr), val |-> NoVal]
    ELSE IF old_ptr.id \notin Live(m)
         THEN [m |-> m, err |-> "DanglingPointerDeref", val |-> NoVal]
    ELSE LET old_size == Len(m.alloc_map[old_ptr.id].bytes)
         IN  IF new_size = 0
             THEN LET d == Deallocate(m, old_ptr,
                               [size |-> old_size, align |-> PointerSize],
                               "C")
                  IN  [m |-> d.m, err |-> d.err,
                       val |-> IF d.err = "" THEN Null ELSE NoVal]
             ELSE LET r == Reallocate(m, old_ptr, old_size, PointerSize,
                                      new_size, PointerSize, "C")
                  IN  [m |-> r.m, err |-> r.err, val |-> r.ptr]

---------------------------------------------------------------------------
(* The arms of emulate_foreign_item's match on the link name.  Each takes  *)
(* the memory and the argument values and returns the memory after the    *)
(* handler, the error (err = "" for Ok), the value written to the          *)
(* destination (ret) and the value written through an out-pointer (out).   *)

\* "malloc"
arm_malloc(m, size) ==
    LET r == malloc(m, size, FALSE) IN Ok(r.m, r.val)

\* a u64 too large to write out: mant * 2^exp (a small mantissa, an
\* exponent up to 64)
Wide(mant, exp) == [mant |-> mant, exp |-> exp]
\* v < 2^bits
FitsBits(v, bits) ==
    \/ v.mant = 0
    \/ /\ v.exp < bits
       /\ (bits - v.exp >= 31 \/ v.mant < 2 ^ (bits - v.exp))
\* u64::checked_mul: the product, and whether it is below 2^64
checked_mul(a, b) ==
    LET p == Wide(a.mant * b.mant, a.exp + b.exp)
    IN  [some |-> FitsBits(p, 64), val |-> p]
\* the sizes the model writes out as arrays of bytes
Materialised(v) == FitsBits(v, 16)
\* such a size as a plain number
Written(v) == IF v.mant = 0 THEN 0 ELSE v.mant * 2 ^ v.exp

\* Memory::allocate for a size that is not written out: the allocation
\* records its size, its bytes are all `fill`
AllocateOversized(m, size, align, kind, fill) ==
    [m |-> [alloc_map |-> Insert(m.alloc_map, m.next_id,
                                 [kind |-> kind, align |-> align,
                                  bytes |-> <<>>, size |-> size,
                                  fill |-> fill]),
            dead_alloc_map |-> m.dead_alloc_map,
            next_id |-> m.next_id + 1],
     ptr |-> Ptr(m.next_id, 0)]

\* fn malloc for a size that is not written out (size is not 0)
malloc_oversized(m, size, zero_init) ==
    LET a == AllocateOversized(m, size, PointerSize, "C",
                               IF zero_init THEN 0 ELSE Undef)
    IN  [m |-> a.m, val |-> a.ptr]

\* "calloc": items and len (given as Wide) are to_usize results held in
\* u64, and checked_mul is u64's
arm_calloc(m, items, len) ==
    LET size == checked_mul(items, len)
    IN  IF ~size.some THEN Err(m, "Overflow", <<"Mul">>)
        ELSE IF Materialised(size.val)
        THEN LET r == malloc(m, Written(size.val), TRUE)
             IN  Ok(r.m, r.val)
        ELSE LET r == malloc_oversized(m, size.val, TRUE)
             IN  Ok(r.m, r.val)

\* posix_memalign without the `align < pointer_size` test
arm_posix_memalign_no_min_align(m, outp, align, size) ==
    IF ~IsPowerOfTwo(align)
    THEN Err(m, "HeapAllocNonPowerOfTwoAlignment", <<>>)
    ELSE IF size = 0
    THEN IF outp # "valid" THEN Err(m, "DanglingPointerDeref", <<>>)
         ELSE [Ok(m, Raw(0)) EXCEPT !.out = Null]
    ELSE LET a == Allocate(m, size, align, "C")
         IN  IF outp # "valid" THEN Err(a.m, "DanglingPointerDeref", <<>>)
             ELSE [Ok(a.m, Raw(0)) EXCEPT !.out = a.ptr]

\* posix_memalign that allocates before it looks at the alignment
arm_posix_memalign_allocate_first(m, outp, align, size) ==
    LET a == Allocate(m, size, PointerSize, "C")
    IN  IF ~IsPowerOfTwo(align)
        THEN Err(a.m, "HeapAllocNonPowerOfTwoAlignment", <<>>)
        ELSE arm_posix_memalign_no_min_align(a.m, outp, align, size)

\* "posix_memalign": outp is the place args[0] points to, "valid" (live,
\* pointer-sized guest memory) or "dangling" (a write through it fails)
arm_posix_memalign(m, outp, align, size) ==
    IF ~IsPowerOfTwo(align)
    THEN Err(m, "HeapAllocNonPowerOfTwoAlignment", <<>>)
    ELSE IF align < PointerSize
    THEN Err(m, "MachineError",
             <<"posix_memalign: alignment must be at least the size of a pointer, but is ",
               align>>)
    ELSE IF size = 0
    THEN IF outp # "valid" THEN Err(m, "DanglingPointerDeref", <<>>)
         ELSE [Ok(m, Raw(0)) EXCEPT !.out = Null]
    ELSE LET a == Allocate(m, size, align, "C")
         IN  IF outp # "valid" THEN Err(a.m, "DanglingPointerDeref", <<>>)
             ELSE [Ok(a.m, Raw(0)) EXCEPT !.out = a.ptr]

\* the "free" arm without the `?` on the result of free
arm_free_ignore_error(m, ptr) ==
    LET r == free(m, ptr)
    IN  Ok(r.m, NoVal)

\* "free": nothing is written to the destination
arm_free(m, ptr) ==
    LET r == free(m, ptr)
    IN  IF r.err # "" THEN Err(r.m, r.err, <<>>) ELSE Ok(r.m, NoVal)

\* "realloc"
arm_realloc(m, old_ptr, new_size) ==
    LET r == realloc(m, old_ptr, new_size)
    IN  IF r.err # "" THEN Err(r.m, r.err, <<>>) ELSE Ok(r.m, r.val)

\* "__rust_alloc"
arm_rust_alloc(m, size, align) ==
    IF size = 0 THEN Err(m, "HeapAllocZeroBytes", <<>>)
    ELSE IF ~IsPowerOfTwo(align)
    THEN Err(m, "HeapAllocNonPowerOfTwoAlignment", <<>>)
    ELSE LET a == Allocate(m, size, align, "Rust") IN Ok(a.m, a.ptr)

\* "__rust_alloc_zeroed"
arm_rust_alloc_zeroed(m, size, align) ==
    IF size = 0 THEN Err(m, "HeapAllocZeroBytes", <<>>)
    ELSE IF ~IsPowerOfTwo(align)
    THEN Err(m, "HeapAllocNonPowerOfTwoAlignment", <<>>)
    ELSE LET a == Allocate(m, size, align, "Rust")
         IN  Ok(WriteRepeat(a.m, a.ptr, 0, size), a.ptr)

\* __rust_dealloc that treats a null pointer as a no-op, as free does
arm_rust_dealloc_null_noop(m, ptr, old_size, align) ==
    IF IsNullPtr(ptr) THEN Ok(m, NoVal)
    ELSE IF ToPtrErr(ptr) # "" THEN Err(m, ToPtrErr(ptr), <<>>)
    ELSE IF old_size = 0 THEN Err(m, "HeapAllocZeroBytes", <<>>)
    ELSE IF ~IsPowerOfTwo(align)
    THEN Err(m, "HeapAllocNonPowerOfTwoAlignment", <<>>)
    ELSE LET d == Deallocate(m, ptr, [size |-> old_size, align |-> align],
                             "Rust")
         IN  IF d.err # "" THEN Err(d.m, d.err, <<>>) ELSE Ok(d.m, NoVal)

\* __rust_dealloc that passes no size and alignment to deallocate
arm_rust_dealloc_no_pairing(m, ptr, old_size, align) ==
    IF ToPtrErr(ptr) # "" THEN Err(m, ToPtrErr(ptr), <<>>)
    ELSE IF old_size = 0 THEN Err(m, "HeapAllocZeroBytes", <<>>)
    ELSE IF ~IsPowerOfTwo(align)
    THEN Err(m, "HeapAllocNonPowerOfTwoAlignment", <<>>)
    ELSE LET d == Deallocate(m, ptr, NoSizeAlign, "Rust")
         IN  IF d.err # "" THEN Err(d.m, d.err, <<>>) ELSE Ok(d.m, NoVal)

\* "__rust_dealloc"
arm_rust_dealloc(m, ptr, old_size, align) ==
    IF ToPtrErr(ptr) # "" THEN Err(m, ToPtrErr(ptr), <<>>)
    ELSE IF old_size = 0 THEN Err(m, "HeapAllocZeroBytes", <<>>)
    ELSE IF ~IsPowerOfTwo(align)
    THEN Err(m, "HeapAllocNonPowerOfTwoAlignment", <<>>)
    ELSE LET d == Deallocate(m, ptr, [size |-> old_size, align |-> align],
                             "Rust")
         IN  IF d.err # "" THEN Err(d.m, d.err, <<>>) ELSE Ok(d.m, NoVal)

\* "__rust_realloc"
arm_rust_realloc(m, ptr, old_size, align, new_size) ==
    IF ToPtrErr(ptr) # "" THEN Err(m, ToPtrErr(ptr), <<>>)
    ELSE IF old_size = 0 \/ new_size = 0
    THEN Err(m, "HeapAllocZeroBytes", <<>>)
    ELSE IF ~IsPowerOfTwo(align)
    THEN Err(m, "HeapAllocNonPowerOfTwoAlignment", <<>>)
    ELSE LET r == Reallocate(m, ptr, old_size, align, new_size, align,
                             "Rust")
         IN  IF r.err # "" THEN Err(r.m, r.err, <<>>) ELSE Ok(r.m, r.ptr)

\* (flags & 0x00000008) != 0
HeapZeroMemory(flags) == (flags \div 8) % 2 = 1

\* "HeapAlloc"
arm_HeapAlloc(m, flags, size) ==
    LET r == malloc(m, size, HeapZeroMemory(flags)) IN Ok(r.m, r.val)

\* "HeapFree": returns TRUE (1)
arm_HeapFree(m, ptr) ==
    LET r == free(m, ptr)
    IN  IF r.err # "" THEN Err(r.m, r.err, <<>>) ELSE Ok(r.m, Raw(1))

\* "HeapReAlloc"
arm_HeapReAlloc(m, ptr, size) ==
    LET r == realloc(m, ptr, size)
    IN  IF r.err # "" THEN Err(r.m, r.err, <<>>) ELSE Ok(r.m, r.val)

\* a panic reported as an unsupported call
arm_panic_unsupported(m) ==
    Err(m, "Unimplemented", <<"the evaluated program panicked">>)

\* "__rust_start_panic" | "panic_impl"
arm_panic(m) == Err(m, "MachineError", <<"the evaluated program panicked">>)

---------------------------------------------------------------------------
(* The environment store (machine.env_vars) and the TLS table.             *)

\* the byte '='
EqualsByte == 61

\* name.contains(&b'=')
Contains(str, b) == \E i \in 1..Len(str) : str[i] = b

\* a C-string argument: the null pointer, or a pointer to the C string str
NullName == [null |-> TRUE, str |-> <<>>]
NamePtr(str) == [null |-> FALSE, str |-> str]

\* setenv that leaves a name that is already set as it is
arm_setenv_keep_first(m, env, name, value) ==
    IF value.null
    THEN [m |-> m, env |-> env, err |-> "InvalidNullPointerUsage",
          msg |-> <<>>, ret |-> NoVal, out |-> NoVal]
    ELSE IF ~name.null /\ name.str # <<>> /\ ~Contains(name.str, EqualsByte)
    THEN LET a == Allocate(m, Len(value.str) + 1, 1, "Env")
             w == WriteBytes(WriteBytes(a.m, a.ptr, value.str),
                             Ptr(a.ptr.id, Len(value.str)), <<0>>)
             d == IF name.str \in DOMAIN env
                  THEN [m |-> m, err |-> ""]
                  ELSE [m |-> w, err |-> ""]
         IN  [m |-> d.m,
              env |-> IF name.str \in DOMAIN env THEN env
                      ELSE Insert(env, name.str, a.ptr),
              err |-> d.err, msg |-> <<>>,
              ret |-> IF d.err = "" THEN Raw(0) ELSE NoVal, out |-> NoVal]
    ELSE [m |-> m, env |-> env, err |-> "", msg |-> <<>>,
          ret |-> Raw(-1), out |-> NoVal]

\* setenv without the test for '=' in the name
arm_setenv_no_equals_check(m, env, name, value) ==
    IF value.null
    THEN [m |-> m, env |-> env, err |-> "InvalidNullPointerUsage",
          msg |-> <<>>, ret |-> NoVal, out |-> NoVal]
    ELSE IF ~name.null /\ name.str # <<>>
    THEN LET a == Allocate(m, Len(value.str) + 1, 1, "Env")
             w == WriteBytes(WriteBytes(a.m, a.ptr, value.str),
                             Ptr(a.ptr.id, Len(value.str)), <<0>>)
             d == IF name.str \in DOMAIN env
                  THEN Deallocate(w, env[name.str], NoSizeAlign, "Env")
                  ELSE [m |-> w, err |-> ""]
         IN  [m |-> d.m, env |-> Insert(env, name.str, a.ptr),
              err |-> d.err, msg |-> <<>>,
              ret |-> IF d.err = "" THEN Raw(0) ELSE NoVal, out |-> NoVal]
    ELSE [m |-> m, env |-> env, err |-> "", msg |-> <<>>,
          ret |-> Raw(-1), out |-> NoVal]

\* setenv that does not deallocate the buffer it replaces
arm_setenv_leak_old(m, env, name, value) ==
    IF value.null
    THEN [m |-> m, env |-> env, err |-> "InvalidNullPointerUsage",
          msg |-> <<>>, ret |-> NoVal, out |-> NoVal]
    ELSE IF ~name.null /\ name.str # <<>> /\ ~Contains(name.str, EqualsByte)
    THEN LET a == Allocate(m, Len(value.str) + 1, 1, "Env")
             w == WriteBytes(WriteBytes(a.m, a.ptr, value.str),
                             Ptr(a.ptr.id, Len(value.str)), <<0>>)
             d == [m |-> w, err |-> ""]
         IN  [m |-> d.m, env |-> Insert(env, name.str, a.ptr),
              err |-> d.err, msg |-> <<>>,
              ret |-> IF d.err = "" THEN Raw(0) ELSE NoVal, out |-> NoVal]
    ELSE [m |-> m, env |-> env, err |-> "", msg |-> <<>>,
          ret |-> Raw(-1), out |-> NoVal]

\* "setenv": name and value are C-string arguments; the value pointer is
\* read with to_ptr before the name is looked at
arm_setenv(m, env, name, value) ==
    IF value.null
    THEN [m |-> m, env |-> env, err |-> "InvalidNullPointerUsage",
          msg |-> <<>>, ret |-> NoVal, out |-> NoVal]
    ELSE IF ~name.null /\ name.str # <<>> /\ ~Contains(name.str, EqualsByte)
    THEN LET a == Allocate(m, Len(value.str) + 1, 1, "Env")
             w == WriteBytes(WriteBytes(a.m, a.ptr, value.str),
                             Ptr(a.ptr.id, Len(value.str)), <<0>>)
             d == IF name.str \in DOMAIN env
                  THEN Deallocate(w, env[name.str], NoSizeAlign, "Env")
                  ELSE [m |-> w, err |-> ""]
         IN  [m |-> d.m, env |-> Insert(env, name.str, a.ptr),
              err |-> d.err, msg |-> <<>>,
              ret |-> IF d.err = "" THEN Raw(0) ELSE NoVal, out |-> NoVal]
    ELSE [m |-> m, env |-> env, err |-> "", msg |-> <<>>,
          ret |-> Raw(-1), out |-> NoVal]

EmptyTls == [next_key |-> 0, keys |-> <<>>]

\* TlsData::create_tls_key
create_tls_key(t, dtor) ==
    [t |-> [next_key |-> t.next_key + 1,
            keys |-> Insert(t.keys, t.next_key,
                            [data |-> Null, dtor |-> dtor])],
     key |-> t.next_key]

\* key >= (1u128 << bits); every key of the model is below 2^31
KeyTooLarge(key, bits) == bits < 31 /\ key >= 2 ^ bits

\* TlsAlloc that tests the next key id before it creates the key
arm_TlsAlloc_check_first(t, bits) ==
    LET c == create_tls_key(t, "None")
    IN  IF bits < 128 /\ KeyTooLarge(c.key, bits)
        THEN [tls |-> t, err |-> "OutOfTls", ret |-> NoVal]
        ELSE [tls |-> c.t, err |-> "", ret |-> Raw(c.key)]

\* "TlsAlloc": bits is dest.layout.size.bits()
arm_TlsAlloc(t, bits) ==
    LET c == create_tls_key(t, "None")
    IN  IF bits < 128 /\ KeyTooLarge(c.key, bits)
        THEN [tls |-> c.t, err |-> "OutOfTls", ret |-> NoVal]
        ELSE [tls |-> c.t, err |-> "", ret |-> Raw(c.key)]

---------------------------------------------------------------------------
(* The dispatcher: one foreign call.  `last` records the call, its         *)
(* outcome, and the emulated state the call started from.                  *)

\* the rest of the evaluation context (`this`): machine.last_error, the
\* optional PRNG memory.extra.rng (pos counts the bytes drawn from it) and
\* the stack of call frames.  A frame is at `block`; return_to_block is
\* its StackPopCleanup::Goto target and arg the value of its argument
\* local
NoRng == [pos |-> 0 - 1]
Rng(pos) == [pos |-> pos]
\* no block (`None`)
NoBlock == 0 - 1
\* the block whose terminator is the guest's next foreign call
CallBlock == 0
\* the resumption point the calls of the allocator, byte, output,
\* environment and TLS specifications are made with
RetBlock == 1
Frame(instance, return_to_block, arg) ==
    [instance |-> instance, block |-> CallBlock,
     return_to_block |-> return_to_block, arg |-> arg]
EmptyEcx ==
    [last_error |-> 0, rng |-> NoRng,
     stack |-> <<Frame("main", NoBlock, NoVal)>>]

\* InterpretCx::goto_block(Some(target)): the current frame moves to target
goto_block(e, target) ==
    [e EXCEPT !.stack[Len(e.stack)].block = target]

Emulated ==
    [memory |-> memory, env_vars |-> env_vars, tls |-> tls,
     last_error |-> ecx.last_error, rng |-> ecx.rng, stack |-> ecx.stack]

\* no call is in flight.  dest and target say whether a destination and a
\* resumption point were supplied (target is the block, or NoBlock);
\* gotos are the blocks goto_block was called with; handler is the arm of
\* the handler match that was entered ("" if none); abort is the message
\* of a panic of the interpreter itself ("" if none)
NoCall ==
    [sym |-> "", args |-> <<>>, err |-> "", msg |-> <<>>, ret |-> NoVal,
     out |-> NoVal, resumed |-> FALSE, dest |-> FALSE, target |-> NoBlock,
     gotos |-> <<>>, handler |-> "", abort |-> "",
     pre |-> [memory |-> EmptyMemory, env_vars |-> <<>>, tls |-> EmptyTls,
              last_error |-> 0, rng |-> NoRng, stack |-> <<>>]]

\* the guest is running and may make its next foreign call; no call
\* follows one that returned Err
Running == last = NoCall

\* the pointer values a guest can pass: null, an integer that is no
\* pointer, and the base pointer of every allocation handed out so far
\* (by an allocator call or, for environment buffers, by getenv)
PtrArgs == {Null, Raw(1)} \cup {Ptr(i, 0) : i \in 1..(memory.next_id - 1)}

\* environment names and values (C strings as byte sequences)
NameArgs == {NullName, NamePtr(<<>>), NamePtr(<<65>>), NamePtr(<<65, 61>>)}
ValueArgs == {NamePtr(<<>>), NamePtr(<<120>>)}

\* the host's standard streams: `unflushed` says that bytes written to the
\* host's standard output have not been flushed since; `ops` are the
\* stream operations of the latest foreign call, in order
EmptyHost == [unflushed |-> FALSE, ops |-> <<>>]

\* the symbols of the first match of emulate_foreign_item
Diverging == {"__rust_start_panic", "panic_impl", "exit", "ExitProcess"}

\* the destination is written (when the handler writes one) and
\* goto_block(ret) resumes the stepper exactly when the handler returned Ok
\* `limit` bounds the allocations of a run (a call that allocates nothing
\* is never held back).  set_values is the history the
\* environment claims speak of: for each name, the value given by the most
\* recent setenv that returned 0 and was not followed by an unsetenv of
\* the name that returned 0
DispatchBounded(limit, sym, args, res, env, t, h, sv) ==
    /\ Running
    /\ \E r \in {res} :
        /\ r.m.next_id <= (IF r.m.next_id = memory.next_id
                           THEN r.m.next_id ELSE limit + 1)
        /\ memory' = r.m
        /\ env_vars' = env
        /\ tls' = t
        /\ host' = h
        /\ set_values' = sv
        /\ ecx' = IF r.err = "" THEN goto_block(ecx, RetBlock) ELSE ecx
        /\ last' = [sym |-> sym, args |-> args, err |-> r.err,
                    msg |-> r.msg, ret |-> r.ret, out |-> r.out,
                    resumed |-> (r.err = ""), dest |-> TRUE,
                    target |-> RetBlock,
                    gotos |-> IF r.err = "" THEN <<RetBlock>> ELSE <<>>,
                    handler |-> IF sym \in Diverging THEN "" ELSE sym,
                    abort |-> "", pre |-> Emulated]

DispatchHost(sym, args, res, env, t, h) ==
    DispatchBounded(MaxAllocs, sym, args, res, env, t, h, set_values)

\* a call of a handler that does not touch the host's streams
Dispatch(sym, args, res, env, t) ==
    DispatchHost(sym, args, res, env, t, [host EXCEPT !.ops = <<>>])

call_malloc(Sizes) ==
    \E size \in Sizes :
        Dispatch("malloc", <<size>>, arm_malloc(memory, size),
                 env_vars, tls)

call_calloc(Items) ==
    \E items \in Items, len \in Items :
        Dispatch("calloc", <<items, len>>,
                 arm_calloc(memory, Wide(items, 0), Wide(len, 0)),
                 env_vars, tls)

\* calloc with arguments given as Wide
call_calloc_wide(Items) ==
    \E items \in Items, len \in Items :
        Dispatch("calloc", <<items, len>>, arm_calloc(memory, items, len),
                 env_vars, tls)

call_posix_memalign(Aligns, Sizes) ==
    \E outp \in {"valid", "dangling"}, align \in Aligns, size \in Sizes :
        Dispatch("posix_memalign", <<outp, align, size>>,
                 arm_posix_memalign(memory, outp, align, size),
                 env_vars, tls)

call_free ==
    \E ptr \in PtrArgs :
        Dispatch("free", <<ptr>>, arm_free(memory, ptr), env_vars, tls)

call_realloc(Sizes) ==
    \E ptr \in PtrArgs, size \in Sizes :
        Dispatch("realloc", <<ptr, size>>, arm_realloc(memory, ptr, size),
                 env_vars, tls)

call_rust_alloc(Sizes, Aligns) ==
    \E size \in Sizes, align \in Aligns :
        Dispatch("__rust_alloc", <<size, align>>,
                 arm_rust_alloc(memory, size, align), env_vars, tls)

call_rust_alloc_zeroed(Sizes, Aligns) ==
    \E size \in Sizes, align \in Aligns :
        Dispatch("__rust_alloc_zeroed", <<size, align>>,
                 arm_rust_alloc_zeroed(memory, size, align), env_vars, tls)

call_rust_dealloc(Sizes, Aligns) ==
    \E ptr \in PtrArgs, old_size \in Sizes, align \in Aligns :
        Dispatch("__rust_dealloc", <<ptr, old_size, align>>,
                 arm_rust_dealloc(memory, ptr, old_size, align),
                 env_vars, tls)

call_rust_realloc(Sizes, Aligns) ==
    \E ptr \in PtrArgs, old_size \in Sizes, align \in Aligns,
       new_size \in Sizes :
        Dispatch("__rust_realloc", <<ptr, old_size, align, new_size>>,
                 arm_rust_realloc(memory, ptr, old_size, align, new_size),
                 env_vars, tls)

\* the heap handle (args[0]) is read and ignored
call_HeapAlloc(Flags, Sizes) ==
    \E flags \in Flags, size \in Sizes :
        Dispatch("HeapAlloc", <<Raw(1), flags, size>>,
                 arm_HeapAlloc(memory, flags, size), env_vars, tls)

call_HeapFree ==
    \E ptr \in PtrArgs :
        Dispatch("HeapFree", <<Raw(1), 0, ptr>>, arm_HeapFree(memory, ptr),
                 env_vars, tls)

call_HeapReAlloc(Sizes) ==
    \E ptr \in PtrArgs, size \in Sizes :
        Dispatch("HeapReAlloc", <<Raw(1), 0, ptr, size>>,
                 arm_HeapReAlloc(memory, ptr, size), env_vars, tls)

\* a diverging call: no destination is written, the stepper is not resumed
call_panic ==
    \E sym \in {"__rust_start_panic", "panic_impl"} :
        Dispatch(sym, <<>>, arm_panic(memory), env_vars, tls)

call_setenv(Names, Values) ==
    \E name \in Names, value \in Values :
        LET r == arm_setenv(memory, env_vars, name, value)
        IN  DispatchBounded(MaxEnvAllocs, "setenv", <<name, value>>, r,
                            r.env, tls, [host EXCEPT !.ops = <<>>],
                            IF r.err = "" /\ r.ret = Raw(0)
                            THEN Insert(set_values, name.str, value.str)
                            ELSE set_values)

\* bits is the width of TlsAlloc's destination (a DWORD has 32); Ids are
\* the key ids a run may create
call_TlsAlloc(Bits, Ids) ==
    \E bits \in Bits :
        LET r == arm_TlsAlloc(tls, bits)
        IN  /\ tls.next_key \in Ids
            /\ Dispatch("TlsAlloc", <<bits>>,
                        [m |-> memory, err |-> r.err, msg |-> <<>>,
                         ret |-> r.ret, out |-> NoVal],
                        env_vars, r.tls)

\* the stepper runs on from the resumption point (goto_block(ret)) until
\* the guest makes its next foreign call
stepper_resume ==
    /\ last.resumed
    /\ last' = NoCall
    /\ ecx' = goto_block(ecx, CallBlock)
    /\ UNCHANGED <<memory, env_vars, tls, host, set_values>>

Init ==
    /\ memory = EmptyMemory
    /\ env_vars = <<>>
    /\ tls = EmptyTls
    /\ host = EmptyHost
    /\ set_values = <<>>
    /\ ecx = EmptyEcx
    /\ last = NoCall

\* the allocator entry points, C-style and tracked
Next ==
    \/ call_malloc(SizeArgs)
    \/ call_calloc(ItemArgs)
    \/ call_posix_memalign(PosixAlignArgs, SizeArgs)
    \/ call_free
    \/ call_realloc(SizeArgs)
    \/ call_rust_alloc(SizeArgs, AlignArgs)
    \/ call_rust_alloc_zeroed(SizeArgs, AlignArgs)
    \/ call_rust_dealloc(SizeArgs, AlignArgs)
    \/ call_rust_realloc(SizeArgs, AlignArgs)
    \/ call_HeapAlloc(FlagArgs, SizeArgs)
    \/ call_HeapFree
    \/ call_HeapReAlloc(SizeArgs)
    \/ call_panic
    \/ stepper_resume

Spec == Init /\ [][Next]_vars

\* the allocator entry points together with the environment store and the
\* TLS table, for the calls that must leave all of them alone
NextFrame ==
    \/ call_malloc(SizeArgs)
    \/ call_free
    \/ call_HeapFree
    \/ call_setenv(NameArgs, ValueArgs)
    \/ call_TlsAlloc({32}, 0..(MaxKeys - 1))
    \/ stepper_resume

SpecFrame == Init /\ [][NextFrame]_vars

\* every entry point that creates an allocation (C heap, language heap,
\* environment buffer) and every one that deallocates or reallocates, with
\* sizes and alignments that fit the allocations made
NextKinds ==
    \/ call_malloc({1})
    \/ call_calloc({1})
    \/ call_posix_memalign({PointerSize}, {1})
    \/ call_HeapAlloc({0}, {1})
    \/ call_rust_alloc({1}, {1, PointerSize})
    \/ call_rust_alloc_zeroed({1}, {1, PointerSize})
    \/ call_setenv({NamePtr(<<65>>)}, {NamePtr(<<>>)})
    \/ call_free
    \/ call_HeapFree
    \/ call_realloc({0, 1, 2})
    \/ call_HeapReAlloc({0, 1, 2})
    \/ call_rust_dealloc({1, 2}, {1, PointerSize})
    \/ call_rust_realloc({1, 2}, {1, PointerSize})
    \/ stepper_resume

SpecKinds == Init /\ [][NextKinds]_vars

---------------------------------------------------------------------------
(* Byte primitives: memcmp, memchr, memrchr.                               *)

\* Memory::read_bytes(ptr, size): check_ptr_access with alignment 1, then
\* Allocation::get_bytes, which also refuses undefined bytes.  A zero-sized
\* access needs no allocation: an integer must be non-null, a pointer in
\* bounds (a pointer to the start of a dead allocation is).  An access to a
\* dead allocation is reported as DanglingPointerDeref.
ReadBytes(m, ptr, size) ==
    LET fail(e) == [err |-> e, bytes |-> <<>>]
        done(b) == [err |-> "", bytes |-> b]
    IN  IF ptr.id = 0
        THEN IF size > 0 THEN fail(ToPtrErr(ptr))
             ELSE IF ptr.off = 0 THEN fail("InvalidNullPointerUsage")
             ELSE done(<<>>)
        ELSE IF ptr.id \notin Live(m)
        THEN IF size = 0 THEN done(<<>>) ELSE fail("DanglingPointerDeref")
        ELSE LET bytes == m.alloc_map[ptr.id].bytes
                 window == SubSeq(bytes, ptr.off + 1, ptr.off + size)
             IN  IF ptr.off + size > Len(bytes) THEN fail("PointerOutOfBounds")
                 ELSE IF \E i \in 1..size : window[i] = Undef
                 THEN fail("ReadUndefBytes")
                 ELSE done(window)

\* <[u8] as Ord>::cmp: lexicographic on unsigned bytes, then on length
RECURSIVE SliceCmp(_, _)
SliceCmp(a, b) ==
    IF a = <<>> /\ b = <<>> THEN "Equal"
    ELSE IF a = <<>> THEN "Less"
    ELSE IF b = <<>> THEN "Greater"
    ELSE IF Head(a) < Head(b) THEN "Less"
    ELSE IF Head(a) > Head(b) THEN "Greater"
    ELSE SliceCmp(Tail(a), Tail(b))

\* Iterator::position(|&c| c == val): index from 0 of the first match, None
\* (-1) without one
Position(seq, val) ==
    LET hits == {i \in 1..Len(seq) : seq[i] = val}
    IN  IF hits = {} THEN -1
        ELSE (CHOOSE i \in hits : \A j \in hits : i <= j) - 1

\* Iterator::rev
Rev(seq) == [i \in 1..Len(seq) |-> seq[Len(seq) + 1 - i]]

\* `as u8` on an i32
AsU8(val) == val % 256

\* Scalar::ptr_offset
PtrOffset(s, k) == [s EXCEPT !.off = @ + k]

\* memcmp that returns the difference of the first differing bytes
arm_memcmp_byte_difference(m, left, right, n) ==
    LET l == ReadBytes(m, left, n)
        r == ReadBytes(m, right, n)
        d == {i \in 1..n : l.bytes[i] # r.bytes[i]}
        k == CHOOSE i \in d : \A j \in d : i <= j
    IN  IF l.err # "" THEN Err(m, l.err, <<>>)
        ELSE IF r.err # "" THEN Err(m, r.err, <<>>)
        ELSE Ok(m, Raw(IF d = {} THEN 0 ELSE l.bytes[k] - r.bytes[k]))

\* memcmp that stops reading at the end of the allocation
arm_memcmp_clamped(m, left, right, n) ==
    LET room(p) == IF p.id \in Live(m)
                   THEN Len(m.alloc_map[p.id].bytes) - p.off ELSE n
        k == Min(n, Min(room(left), room(right)))
        l == ReadBytes(m, left, k)
        r == ReadBytes(m, right, k)
        c == SliceCmp(l.bytes, r.bytes)
    IN  IF l.err # "" THEN Err(m, l.err, <<>>)
        ELSE IF r.err # "" THEN Err(m, r.err, <<>>)
        ELSE Ok(m, Raw(IF c = "Less" THEN -1 ELSE IF c = "Equal" THEN 0 ELSE 1))

\* "memcmp"
arm_memcmp(m, left, right, n) ==
    LET l == ReadBytes(m, left, n)
        r == ReadBytes(m, right, n)
        c == SliceCmp(l.bytes, r.bytes)
    IN  IF l.err # "" THEN Err(m, l.err, <<>>)
        ELSE IF r.err # "" THEN Err(m, r.err, <<>>)
        ELSE Ok(m, Raw(IF c = "Less" THEN -1 ELSE IF c = "Equal" THEN 0 ELSE 1))

\* "memchr"
arm_memchr(m, ptr, val, num) ==
    LET b == ReadBytes(m, ptr, num)
        idx == Position(b.bytes, AsU8(val))
    IN  IF b.err # "" THEN Err(m, b.err, <<>>)
        ELSE IF idx # -1 THEN Ok(m, PtrOffset(ptr, idx))
        ELSE Ok(m, Null)

\* memrchr that scans from the front
arm_memrchr_from_front(m, ptr, val, num) ==
    LET b == ReadBytes(m, ptr, num)
        idx == Position(b.bytes, AsU8(val))
    IN  IF b.err # "" THEN Err(m, b.err, <<>>)
        ELSE IF idx # -1 THEN Ok(m, PtrOffset(ptr, idx))
        ELSE Ok(m, Null)

\* "memrchr"
arm_memrchr(m, ptr, val, num) ==
    LET b == ReadBytes(m, ptr, num)
        idx == Position(Rev(b.bytes), AsU8(val))
    IN  IF b.err # "" THEN Err(m, b.err, <<>>)
        ELSE IF idx # -1 THEN Ok(m, PtrOffset(ptr, num - idx - 1))
        ELSE Ok(m, Null)

call_memcmp(Ptrs, Lens) ==
    \E left \in Ptrs, right \in Ptrs, n \in Lens :
        Dispatch("memcmp", <<left, right, n>>,
                 arm_memcmp(memory, left, right, n), env_vars, tls)

call_memchr(Ptrs, Vals, Lens) ==
    \E ptr \in Ptrs, val \in Vals, num \in Lens :
        Dispatch("memchr", <<ptr, val, num>>,
                 arm_memchr(memory, ptr, val, num), env_vars, tls)

call_memrchr(Ptrs, Vals, Lens) ==
    \E ptr \in Ptrs, val \in Vals, num \in Lens :
        Dispatch("memrchr", <<ptr, val, num>>,
                 arm_memrchr(memory, ptr, val, num), env_vars, tls)

\* the guest's buffer: one C-heap allocation of BufLen bytes, each byte
\* stored by the guest or still undefined; a second allocation is freed
BufLen == 4
ByteValues == {1, 200}

InitBytes ==
    /\ \E bytes \in [1..BufLen -> ByteValues \cup {Undef}] :
           memory = [alloc_map |-> Insert(<<>>, 1, [kind |-> "C",
                                                    align |-> PointerSize,
                                                    bytes |-> bytes]),
                     dead_alloc_map |-> {2},
                     next_id |-> 3]
    /\ env_vars = <<>>
    /\ tls = EmptyTls
    /\ host = EmptyHost
    /\ set_values = <<>>
    /\ ecx = EmptyEcx
    /\ last = NoCall

\* pointers into the buffer (one past its end included), the freed
\* allocation, null and an integer
BytePtrArgs ==
    {Null, Raw(1), Ptr(2, 0)} \cup {Ptr(1, o) : o \in 0..BufLen}
WindowArgs == {0, 1, 2, 3}
\* byte values as C ints: 257 and -56 truncate to 1 and 200
ValArgs == {1, 200, 257, -56, 7}

NextBytes ==
    \/ call_memcmp(BytePtrArgs, WindowArgs)
    \/ call_memchr(BytePtrArgs, ValArgs, WindowArgs)
    \/ call_memrchr(BytePtrArgs, ValArgs, WindowArgs)
    \/ stepper_resume

SpecBytes == InitBytes /\ [][NextBytes]_vars

---------------------------------------------------------------------------
(* Output: write and WriteFile.                                            *)

\* a handler's outcome together with the host streams it leaves
WithHost(r, h) ==
    [m |-> r.m, err |-> r.err, msg |-> r.msg, ret |-> r.ret, out |-> r.out,
     host |-> h]

\* the outcomes of io::Write::write on a host stream given n bytes: an
\* error, or the number of bytes it took
HostWrites(n) ==
    {[ok |-> FALSE, n |-> 0]} \cup {[ok |-> TRUE, n |-> k] : k \in 0..n}

\* "write": res is the outcome of the host write.  The flush is taken to
\* succeed (`flush().unwrap()`)
arm_write(m, h, fd, buf, n, res) ==
    LET b == ReadBytes(m, buf, n)
        quiet == [h EXCEPT !.ops = <<>>]
    IN  IF fd = 1 \/ fd = 2
        THEN IF b.err # "" THEN WithHost(Err(m, b.err, <<>>), quiet)
             ELSE WithHost(Ok(m, Raw(IF res.ok THEN res.n ELSE -1)),
                           IF fd = 1
                           THEN [unflushed |-> FALSE,
                                 ops |-> <<"stdout.write", "stdout.flush">>]
                           ELSE [h EXCEPT !.ops = <<"stderr.write">>])
        ELSE WithHost(Ok(m, Raw(n)), [h EXCEPT !.ops = <<"stderr.eprintln">>])

\* "WriteFile": written is the place args[3] points to, "valid" or
\* "dangling"; `out` is what that place holds after the call
arm_WriteFile(m, h, handle, buf, n, written, res) ==
    LET b == ReadBytes(m, buf, n)
        quiet == [h EXCEPT !.ops = <<>>]
    IN  IF written # "valid"
        THEN WithHost(Err(m, "DanglingPointerDeref", <<>>), quiet)
        ELSE IF handle = -11 \/ handle = -12
        THEN IF b.err # ""
             THEN WithHost([Err(m, b.err, <<>>) EXCEPT !.out = Raw(0)], quiet)
             ELSE WithHost([Ok(m, Raw(IF res.ok THEN 1 ELSE 0))
                               EXCEPT !.out = Raw(res.n)],
                           IF handle = -11
                           THEN [unflushed |-> TRUE,
                                 ops |-> <<"stdout.write">>]
                           ELSE [h EXCEPT !.ops = <<"stderr.write">>])
        ELSE WithHost([Ok(m, Raw(1)) EXCEPT !.out = Raw(n)],
                      [h EXCEPT !.ops = <<"stderr.eprintln">>])

call_write(Fds, Ptrs, Lens) ==
    \E fd \in Fds, buf \in Ptrs, n \in Lens :
        \E res \in HostWrites(n) :
            LET r == arm_write(memory, host, fd, buf, n, res)
            IN  DispatchHost("write", <<fd, buf, n>>, r, env_vars, tls,
                             r.host)

call_WriteFile(Handles, Ptrs, Lens) ==
    \E handle \in Handles, buf \in Ptrs, n \in Lens :
        \E written \in {"valid", "dangling"}, res \in HostWrites(n) :
            LET r == arm_WriteFile(memory, host, handle, buf, n, written,
                                   res)
            IN  DispatchHost("WriteFile", <<handle, buf, n, written>>, r,
                             env_vars, tls, r.host)

\* standard input, output, error and another descriptor; the Windows
\* standard handles and another handle
FdArgs == {0, 1, 2, 3}
HandleArgs == {-10, -11, -12, 5}
OutPtrArgs == {Null, Ptr(1, 0), Ptr(1, 2), Ptr(2, 0)}
OutLenArgs == {0, 1, 2}

NextOutput ==
    \/ call_write(FdArgs, OutPtrArgs, OutLenArgs)
    \/ call_WriteFile(HandleArgs, OutPtrArgs, OutLenArgs)
    \/ stepper_resume

SpecOutput == InitBytes /\ [][NextOutput]_vars

---------------------------------------------------------------------------
(* Environment: getenv and unsetenv (setenv is above).                     *)

\* "getenv": the name pointer is read with to_ptr
arm_getenv(m, env, name) ==
    IF name.null THEN Err(m, "InvalidNullPointerUsage", <<>>)
    ELSE IF name.str \in DOMAIN env THEN Ok(m, env[name.str])
    ELSE Ok(m, Null)

\* unsetenv that reports a name that is not in the store with -1
arm_unsetenv_not_found(m, env, name) ==
    IF ~name.null /\ name.str # <<>> /\ ~Contains(name.str, EqualsByte)
       /\ name.str \in DOMAIN env
    THEN LET d == Deallocate(m, env[name.str], NoSizeAlign, "Env")
         IN  [m |-> d.m, env |-> Remove(env, name.str),
              err |-> d.err, msg |-> <<>>,
              ret |-> IF d.err = "" THEN Raw(0) ELSE NoVal, out |-> NoVal]
    ELSE [m |-> m, env |-> env, err |-> "", msg |-> <<>>,
          ret |-> Raw(-1), out |-> NoVal]

\* unsetenv that removes the entry and keeps its buffer allocated
arm_unsetenv_no_dealloc(m, env, name) ==
    IF ~name.null /\ name.str # <<>> /\ ~Contains(name.str, EqualsByte)
    THEN [m |-> m, env |-> Remove(env, name.str),
          err |-> "", msg |-> <<>>, ret |-> Raw(0), out |-> NoVal]
    ELSE [m |-> m, env |-> env, err |-> "", msg |-> <<>>,
          ret |-> Raw(-1), out |-> NoVal]

\* "unsetenv": `success` is Some(..) for every valid name, whether or not
\* env_vars.remove found an entry
arm_unsetenv(m, env, name) ==
    IF ~name.null /\ name.str # <<>> /\ ~Contains(name.str, EqualsByte)
    THEN LET d == IF name.str \in DOMAIN env
                  THEN Deallocate(m, env[name.str], NoSizeAlign, "Env")
                  ELSE [m |-> m, err |-> ""]
         IN  [m |-> d.m, env |-> Remove(env, name.str),
              err |-> d.err, msg |-> <<>>,
              ret |-> IF d.err = "" THEN Raw(0) ELSE NoVal, out |-> NoVal]
    ELSE [m |-> m, env |-> env, err |-> "", msg |-> <<>>,
          ret |-> Raw(-1), out |-> NoVal]

call_getenv(Names) ==
    \E name \in Names :
        Dispatch("getenv", <<name>>, arm_getenv(memory, env_vars, name),
                 env_vars, tls)

call_unsetenv(Names) ==
    \E name \in Names :
        LET r == arm_unsetenv(memory, env_vars, name)
        IN  DispatchBounded(MaxEnvAllocs, "unsetenv", <<name>>, r, r.env,
                            tls, [host EXCEPT !.ops = <<>>],
                            IF r.err = "" /\ r.ret = Raw(0)
                            THEN Remove(set_values, name.str)
                            ELSE set_values)

\* names: null, "", "A", "B", "A="; values: null, "", "x"
EnvNameArgs ==
    {NullName, NamePtr(<<>>), NamePtr(<<65>>), NamePtr(<<66>>),
     NamePtr(<<65, 61>>)}
EnvValueArgs == {NullName, NamePtr(<<>>), NamePtr(<<120>>)}

\* the environment calls, and the deallocating calls on the pointers the
\* guest holds (those getenv returned among them)
NextEnv ==
    \/ call_setenv(EnvNameArgs, EnvValueArgs)
    \/ call_unsetenv(EnvNameArgs)
    \/ call_getenv(EnvNameArgs)
    \/ call_free
    \/ call_realloc({1})
    \/ call_rust_dealloc({1, 2}, {1})
    \/ stepper_resume

SpecEnv == Init /\ [][NextEnv]_vars

---------------------------------------------------------------------------
(* TLS keys: pthread_key_create (TlsAlloc is above).                       *)

\* the number of values of an 8-bit key type
KeySpace == 256

\* Scalar::from_uint(i, size): the low `bits` bits of i
FromUint(i, bits) == IF bits < 31 THEN Raw(i % (2 ^ bits)) ELSE Raw(i)

\* a pointer to a guest function (Memory::get_fn accepts it)
FnPtr == [id |-> 0 - 2, off |-> 0]

\* pthread_key_create without the test of the key against the key type
arm_pthread_key_create_no_check(m, t, key_ptr, dtor, bits, sig) ==
    LET c == create_tls_key(t, IF dtor = Null THEN "None" ELSE "Some")
        fail(tt, e) == [m |-> m, tls |-> tt, err |-> e, msg |-> <<>>,
                        ret |-> NoVal, out |-> NoVal]
    IN  IF dtor.id = 0 /\ dtor.off # 0 THEN fail(t, "ReadBytesAsPointer")
        ELSE IF sig # "ptr" THEN fail(t, "AbiViolation")
        ELSE IF key_ptr = "null" THEN fail(c.t, "InvalidNullPointerUsage")
        ELSE IF key_ptr # "valid" THEN fail(c.t, "DanglingPointerDeref")
        ELSE [m |-> m, tls |-> c.t, err |-> "", msg |-> <<>>,
              ret |-> Raw(0), out |-> FromUint(c.key, bits)]

\* "pthread_key_create": key_ptr is the place args[0] points to ("valid",
\* "null" or "dangling"), dtor the destructor argument (null, or a pointer
\* to a function; an integer is refused), bits the width of the key type
\* (the pointee of args[0]), sig whether args[0] is declared as a raw
\* pointer.  `out` is what the key location holds after the call.
arm_pthread_key_create(m, t, key_ptr, dtor, bits, sig) ==
    LET c == create_tls_key(t, IF dtor = Null THEN "None" ELSE "Some")
        fail(tt, e) == [m |-> m, tls |-> tt, err |-> e, msg |-> <<>>,
                        ret |-> NoVal, out |-> NoVal]
    IN  IF dtor.id = 0 /\ dtor.off # 0 THEN fail(t, "ReadBytesAsPointer")
        ELSE IF sig # "ptr" THEN fail(t, "AbiViolation")
        ELSE IF bits < 128 /\ KeyTooLarge(c.key, bits)
        THEN fail(c.t, "OutOfTls")
        ELSE IF key_ptr = "null" THEN fail(c.t, "InvalidNullPointerUsage")
        ELSE IF key_ptr # "valid" THEN fail(c.t, "DanglingPointerDeref")
        ELSE [m |-> m, tls |-> c.t, err |-> "", msg |-> <<>>,
              ret |-> Raw(0), out |-> FromUint(c.key, bits)]

call_pthread_key_create(Bits, Ids) ==
    \E key_ptr \in {"valid", "null", "dangling"},
       dtor \in {Null, Raw(1), FnPtr},
       bits \in Bits, sig \in {"ptr", "notptr"} :
        LET r == arm_pthread_key_create(memory, tls, key_ptr, dtor, bits, sig)
        IN  /\ tls.next_key \in Ids
            /\ Dispatch("pthread_key_create", <<key_ptr, dtor, bits, sig>>,
                        r, env_vars, r.tls)

\* a TLS table in which the keys 0..n-1 have been created
TlsWithKeys(n) ==
    [next_key |-> n,
     keys |-> [k \in 0..(n - 1) |-> [data |-> Null, dtor |-> "None"]]]

\* a run that has created no key yet, or all but the last two keys that
\* fit an 8-bit key type
InitTls ==
    /\ memory = EmptyMemory
    /\ env_vars = <<>>
    /\ tls \in {EmptyTls, TlsWithKeys(KeySpace - 2)}
    /\ host = EmptyHost
    /\ set_values = <<>>
    /\ ecx = EmptyEcx
    /\ last = NoCall

\* key types of 8 and 32 bits
KeyBitsArgs == {8, 32}
\* the key ids a run creates: the first ones, and those around the end of
\* an 8-bit key type
KeyIdArgs == 0..(MaxKeys - 1) \cup (KeySpace - 2)..(KeySpace + MaxKeys - 1)

NextTls ==
    \/ call_pthread_key_create(KeyBitsArgs, KeyIdArgs)
    \/ call_TlsAlloc(KeyBitsArgs, KeyIdArgs)
    \/ stepper_resume

SpecTls == InitTls /\ [][NextTls]_vars

---------------------------------------------------------------------------
(* The entry point emulate_foreign_item as the stepper calls it: with or   *)
(* without a destination and a resumption point, and with the arguments    *)
(* the guest's declaration of the symbol gives it.                         *)

\* a 4-byte integer argument given as its two 16-bit halves <<hi, lo>>
Word(hi, lo) == Raw(<<hi, lo>>)
\* Scalar::to_i32: the 32 bits read as a two's complement number
to_i32(w) ==
    IF w[1] >= 32768 THEN (w[1] - 65536) * 65536 + w[2]
    ELSE w[1] * 65536 + w[2]

\* a guest function of n arguments: a function pointer
GuestFn(n) == [id |-> 0 - 2 - n, off |-> 0]
\* the number of argument locals of the function's body
ArgCount(f) == 0 - 2 - f.id

\* the stream of the seeded generator (StdRng): the byte at position k
RandByte(k) == (k * 37 + 11) % 256

\* libc::SYS_getrandom of the target
SYS_getrandom == 355

\* the outcome of one call of the entry point: the state it leaves
\* (m, env, t, e), the InterpError it returns (err, msg; "" for Ok), the
\* scalar written to the destination, the blocks goto_block was called
\* with, the handler arm entered and the interpreter's own panic, if any
Outcome(r, env, t, e, handler) ==
    [m |-> r.m, env |-> env, t |-> t, e |-> e, err |-> r.err,
     msg |-> r.msg, ret |-> r.ret, gotos |-> <<>>, handler |-> handler,
     abort |-> ""]

\* a panic of the interpreter (index out of range, expect, assert!)
Aborts(o, msg) == [o EXCEPT !.abort = msg]

\* "exit" | "ExitProcess": args[0] is indexed, read and converted
arm_exit_unchecked(m, args) ==
    IF args[1].id # 0 THEN Err(m, "ReadPointerAsBytes", <<>>)
    ELSE Err(m, "Exit", <<to_i32(args[1].off)>>)

\* gen_random with no early return for len = 0
gen_random_no_len_check(m, e, len, dest) ==
    IF ToPtrErr(dest) # ""
    THEN [m |-> m, e |-> e, err |-> ToPtrErr(dest), msg |-> <<>>]
    ELSE IF e.rng = NoRng
    THEN [m |-> m, e |-> e, err |-> "Unimplemented",
          msg |-> <<"miri does not support gathering system entropy in deterministic mode!">>]
    ELSE
      LET data == [i \in 1..len |-> RandByte(e.rng.pos + i)]
          drawn == [e EXCEPT !.rng = Rng(@.pos + len)]
          access == CheckPtrAccess(m, dest, len, 1)
      IN  IF access # ""
          THEN [m |-> m, e |-> drawn, err |-> access, msg |-> <<>>]
          ELSE [m |-> WriteBytes(m, dest, data), e |-> drawn, err |-> "",
                msg |-> <<>>]

\* gen_random that falls back to zero bytes when no generator is present
gen_random_unseeded(m, e, len, dest) ==
    IF len = 0 \/ e.rng # NoRng THEN gen_random_no_len_check(m, e, len, dest)
    ELSE gen_random_no_len_check(m, [e EXCEPT !.rng = Rng(0)], len, dest)

\* gen_random that writes one byte fewer than asked
gen_random_short(m, e, len, dest) ==
    IF len = 0 THEN [m |-> m, e |-> e, err |-> "", msg |-> <<>>]
    ELSE gen_random_no_len_check(m, e, len - 1, dest)

gen_random(m, e, len, dest) ==
    IF len = 0 THEN [m |-> m, e |-> e, err |-> "", msg |-> <<>>]
    ELSE gen_random_no_len_check(m, e, len, dest)

\* the result of a handler that calls gen_random and then writes val
Randomised(g, val) ==
    [m |-> g.m, err |-> g.err, msg |-> g.msg,
     ret |-> IF g.err = "" THEN val ELSE NoVal, out |-> NoVal]

\* "syscall": args[0] is the syscall id; getrandom reads ptr, len and flags
arm_syscall(m, e, args) ==
    IF Len(args) < 1 THEN Aborts(Outcome(Ok(m, NoVal), env_vars, tls, e,
                                         "syscall"), "index out of bounds")
    ELSE IF args[1].id # 0
    THEN Outcome(Err(m, "ReadPointerAsBytes", <<>>), env_vars, tls, e,
                 "syscall")
    ELSE IF args[1].off # SYS_getrandom
    THEN Outcome(Err(m, "Unimplemented",
                     <<"miri does not support syscall ID ", args[1].off>>),
                 env_vars, tls, e, "syscall")
    ELSE IF Len(args) < 4
    THEN Aborts(Outcome(Ok(m, NoVal), env_vars, tls, e, "syscall"),
                "index out of bounds")
    ELSE IF args[3].id # 0 \/ args[4].id # 0
    THEN Outcome(Err(m, "ReadPointerAsBytes", <<>>), env_vars, tls, e,
                 "syscall")
    ELSE LET g == gen_random(m, e, args[3].off, args[2])
         IN  Outcome(Randomised(g, Raw(args[3].off)), env_vars, tls, g.e,
                     "syscall")

\* "SecRandomCopyBytes": len is args[1], ptr is args[2]
arm_SecRandomCopyBytes(m, e, args) ==
    IF Len(args) < 3
    THEN Aborts(Outcome(Ok(m, NoVal), env_vars, tls, e,
                        "SecRandomCopyBytes"), "index out of bounds")
    ELSE IF args[2].id # 0
    THEN Outcome(Err(m, "ReadPointerAsBytes", <<>>), env_vars, tls, e,
                 "SecRandomCopyBytes")
    ELSE LET g == gen_random(m, e, args[2].off, args[3])
         IN  Outcome(Randomised(g, Raw(0)), env_vars, tls, g.e,
                     "SecRandomCopyBytes")

\* "SystemFunction036": ptr is args[0], len is args[1]; writes `true`
arm_SystemFunction036(m, e, args) ==
    IF Len(args) < 2
    THEN Aborts(Outcome(Ok(m, NoVal), env_vars, tls, e,
                        "SystemFunction036"), "index out of bounds")
    ELSE IF args[2].id # 0
    THEN Outcome(Err(m, "ReadPointerAsBytes", <<>>), env_vars, tls, e,
                 "SystemFunction036")
    ELSE LET g == gen_random(m, e, args[2].off, args[1])
         IN  Outcome(Randomised(g, Raw(1)), env_vars, tls, g.e,
                     "SystemFunction036")

\* Memory::get_fn: the error it returns, "" for a function pointer
GetFnErr(m, f) ==
    IF f.off # 0 THEN "InvalidFunctionPointer"
    ELSE IF f.id > 0
    THEN IF f.id \in Live(m) THEN "ExecuteMemory"
         ELSE "DanglingPointerDeref"
    ELSE ""

\* push_stack_frame(f_instance, .., StackPopCleanup::Goto(Some(ret)))
push_stack_frame(e, f, ret) ==
    [e EXCEPT !.stack = Append(@, Frame(f, ret, NoVal))]

\* the shim with the frame's cleanup left empty
arm_rust_maybe_catch_panic_no_return(m, e, args, ret) ==
    LET pushed == push_stack_frame(e, args[1], NoBlock)
        passed == [pushed EXCEPT !.stack[Len(pushed.stack)].arg = args[2]]
    IN  Outcome(Ok(m, Raw(0)), env_vars, tls, passed,
                "__rust_maybe_catch_panic")

\* "__rust_maybe_catch_panic": dest is written, the frame of f is pushed,
\* then its argument locals are counted; the arm returns without goto_block
arm_rust_maybe_catch_panic(m, e, args, ret) ==
    LET here == "__rust_maybe_catch_panic"
        pushed == push_stack_frame(e, args[1], ret)
        passed == [pushed EXCEPT !.stack[Len(pushed.stack)].arg = args[2]]
    IN  IF Len(args) < 2
        THEN Aborts(Outcome(Ok(m, NoVal), env_vars, tls, e, here),
                    "index out of bounds")
        ELSE IF ToPtrErr(args[1]) # ""
        THEN Outcome(Err(m, ToPtrErr(args[1]), <<>>), env_vars, tls, e, here)
        ELSE IF GetFnErr(m, args[1]) # ""
        THEN Outcome(Err(m, GetFnErr(m, args[1]), <<>>), env_vars, tls, e,
                     here)
        ELSE IF ArgCount(args[1]) = 0
        THEN Outcome([Err(m, "AbiViolation",
                          <<"Argument to __rust_maybe_catch_panic does not take enough arguments.">>)
                      EXCEPT !.ret = Raw(0)],
                     env_vars, tls, pushed, here)
        ELSE IF ArgCount(args[1]) > 1
        THEN Aborts(Outcome(Ok(m, Raw(0)), env_vars, tls, passed, here),
                    "__rust_maybe_catch_panic argument has more arguments than expected")
        ELSE Outcome(Ok(m, Raw(0)), env_vars, tls, passed, here)

\* the condvar, mutex and rwlock stubs
LockStubs ==
    {"pthread_mutexattr_init", "pthread_mutexattr_settype",
     "pthread_mutex_init", "pthread_mutexattr_destroy",
     "pthread_mutex_lock", "pthread_mutex_unlock", "pthread_mutex_destroy",
     "pthread_rwlock_rdlock", "pthread_rwlock_unlock",
     "pthread_rwlock_wrlock", "pthread_rwlock_destroy",
     "pthread_condattr_init", "pthread_condattr_setclock",
     "pthread_cond_init", "pthread_condattr_destroy",
     "pthread_cond_destroy"}

\* a stub that waits for the lock to be free: no result
arm_lock_stub_blocks(m) == Err(m, "Deadlock", <<>>)

\* the stubs' arm: write_null(dest)
arm_lock_stub(m) == Ok(m, Raw(0))

\* the handlers of this block that end in the common goto_block
\* (args are indexed before anything else is done)
Indexed(link_name) ==
    CASE link_name \in {"free", "SetLastError"} -> 1
      [] link_name = "setenv" -> 2
      [] OTHER -> 0

\* the default arm with the symbol left out of the message
arm_default_unnamed(m, link_name) ==
    Err(m, "Unimplemented", <<"can't call foreign function">>)

\* `_ =>` of the handler match
arm_default(m, link_name) ==
    Err(m, "Unimplemented", <<"can't call foreign function: ", link_name>>)

\* "SetLastError": nothing is written to dest
arm_SetLastError(m, e, args) ==
    IF args[1].id # 0
    THEN Outcome(Err(m, "ReadPointerAsBytes", <<>>), env_vars, tls, e,
                 "SetLastError")
    ELSE Outcome(Ok(m, NoVal), env_vars, tls,
                 [e EXCEPT !.last_error = args[1].off], "SetLastError")

\* the handler match (after dest and ret were unwrapped), up to the
\* common goto_block
handlers(link_name, args, ret) ==
    IF Len(args) < Indexed(link_name)
    THEN Aborts(Outcome(Ok(memory, NoVal), env_vars, tls, ecx, link_name),
                "index out of bounds")
    ELSE
    CASE link_name = "free" ->
           Outcome(arm_free(memory, args[1]), env_vars, tls, ecx, "free")
      [] link_name = "setenv" ->
           LET r == arm_setenv(memory, env_vars, args[1], args[2])
           IN  Outcome(r, r.env, tls, ecx, "setenv")
      [] link_name = "SetLastError" -> arm_SetLastError(memory, ecx, args)
      [] link_name = "GetLastError" ->
           Outcome(Ok(memory, Raw(ecx.last_error)), env_vars, tls, ecx,
                   "GetLastError")
      [] link_name \in LockStubs ->
           Outcome(arm_lock_stub(memory), env_vars, tls, ecx, link_name)
      [] link_name = "syscall" -> arm_syscall(memory, ecx, args)
      [] link_name = "SecRandomCopyBytes" ->
           arm_SecRandomCopyBytes(memory, ecx, args)
      [] link_name = "SystemFunction036" ->
           arm_SystemFunction036(memory, ecx, args)
      [] link_name = "__rust_maybe_catch_panic" ->
           arm_rust_maybe_catch_panic(memory, ecx, args, ret)
      [] OTHER ->
           Outcome(arm_default(memory, link_name), env_vars, tls, ecx, "_")

\* the arms that return by themselves, without the common goto_block
SpecialCased == {"__rust_maybe_catch_panic"}

\* the handler match and what follows it: goto_block(Some(ret))
handled(link_name, args, ret) ==
    LET o == handlers(link_name, args, ret)
    IN  IF o.err = "" /\ o.abort = "" /\ link_name \notin SpecialCased
        THEN [o EXCEPT !.e = goto_block(o.e, ret), !.gotos = <<ret>>]
        ELSE o

\* the entry point with the diverging symbols sent on to the handlers
emulate_foreign_item_no_diverging(link_name, args, dest, ret) ==
    handled(link_name, args, ret)

\* the entry point with no test of the destination
emulate_foreign_item_no_dest_check(link_name, args, dest, ret) ==
    IF link_name \in {"__rust_start_panic", "panic_impl"}
    THEN Outcome(arm_panic(memory), env_vars, tls, ecx, "")
    ELSE IF link_name \in {"exit", "ExitProcess"}
    THEN Outcome(arm_exit_unchecked(memory, args), env_vars, tls, ecx, "")
    ELSE handled(link_name, args, ret)

\* the entry point that stays at the call when a handler returns Ok
emulate_foreign_item_no_goto(link_name, args, dest, ret) ==
    IF link_name \in Diverging \/ ~dest
    THEN emulate_foreign_item_no_dest_check(link_name, args, FALSE, ret)
    ELSE handlers(link_name, args, ret)

\* emulate_foreign_item(def_id, args, dest, ret), link_name resolved
emulate_foreign_item(link_name, args, dest, ret) ==
    LET none == Outcome(Ok(memory, NoVal), env_vars, tls, ecx, "")
    IN  IF link_name \in {"__rust_start_panic", "panic_impl"}
        THEN Outcome(arm_panic(memory), env_vars, tls, ecx, "")
        ELSE IF link_name \in {"exit", "ExitProcess"}
        THEN IF Len(args) < 1 THEN Aborts(none, "index out of bounds")
             ELSE Outcome(arm_exit_unchecked(memory, args), env_vars, tls,
                          ecx, "")
        ELSE IF ~dest
        THEN Outcome(Err(memory, "Unimplemented",
                         <<"can't call diverging foreign function: ",
                           link_name>>),
                     env_vars, tls, ecx, "")
        ELSE IF ret = NoBlock
        THEN Aborts(none, "dest is Some but ret is None")
        ELSE handled(link_name, args, ret)

\* one foreign call through the entry point.  ArgsOf gives, for each
\* symbol the guest calls, the argument lists it is called with; Targets
\* are the resumption points.  A destination and a resumption point come
\* together (the call terminator's `destination`) or not at all
call_foreign(ArgsOf, Targets) ==
    /\ Running
    /\ \E link_name \in DOMAIN ArgsOf, ret \in Targets \cup {NoBlock} :
       \E args \in ArgsOf[link_name] :
        LET dest == ret # NoBlock
            o == emulate_foreign_item(link_name, args, dest, ret)
        IN  /\ o.m.next_id <= (IF o.m.next_id = memory.next_id
                               THEN o.m.next_id ELSE MaxAllocs + 1)
            /\ Len(o.e.stack) <= MaxFrames
            /\ o.e.rng.pos <= MaxDrawn
            /\ memory' = o.m
            /\ env_vars' = o.env
            /\ tls' = o.t
            /\ ecx' = o.e
            /\ host' = [host EXCEPT !.ops = <<>>]
            /\ set_values' =
                 IF link_name = "setenv" /\ o.err = "" /\ o.abort = ""
                    /\ o.ret = Raw(0)
                 THEN Insert(set_values, args[1].str, args[2].str)
                 ELSE set_values
            /\ last' = [sym |-> link_name, args |-> args, err |-> o.err,
                        msg |-> o.msg, ret |-> o.ret, out |-> NoVal,
                        resumed |-> (o.gotos # <<>>), dest |-> dest,
                        target |-> ret, gotos |-> o.gotos,
                        handler |-> o.handler, abort |-> o.abort,
                        pre |-> Emulated]

\* the call returned Ok without goto_block (a frame was pushed): the
\* stepper runs on in the frame on top of the stack
stepper_enter_frame ==
    /\ last.sym # ""
    /\ last.err = ""
    /\ last.abort = ""
    /\ ~last.resumed
    /\ last' = NoCall
    /\ UNCHANGED <<memory, env_vars, tls, host, set_values, ecx>>

\* the frame on top of the stack returns (pop_stack_frame): its
\* StackPopCleanup::Goto target becomes the caller's block
stepper_pop_frame ==
    /\ Running
    /\ Len(ecx.stack) > 1
    /\ LET top == ecx.stack[Len(ecx.stack)]
           popped == [ecx EXCEPT !.stack = SubSeq(@, 1, Len(@) - 1)]
           unreachable == top.return_to_block = NoBlock
       IN  /\ ecx' = IF unreachable THEN popped
                     ELSE goto_block(popped, top.return_to_block)
           /\ last' = [NoCall EXCEPT
                         !.sym = "<return>",
                         !.err = IF unreachable THEN "Unreachable" ELSE "",
                         !.resumed = ~unreachable,
                         !.target = top.return_to_block,
                         !.gotos = IF unreachable THEN <<>>
                                   ELSE <<top.return_to_block>>,
                         !.pre = Emulated]
    /\ UNCHANGED <<memory, env_vars, tls, host, set_values>>

\* the symbols of the dispatch specification: the diverging ones, handlers
\* over each part of the emulated state, lock stubs, and two symbols no
\* arm matches
EntrySyms ==
    Diverging \cup
    {"free", "setenv", "SetLastError", "GetLastError",
     "pthread_mutex_lock", "pthread_mutex_unlock", "pthread_rwlock_wrlock",
     "abort", "foo"}
\* exit statuses: 0, 1, 0xFFFFFFFF, 0x80000000; a pointer; no argument
ExitArgs ==
    {<<>>, <<Word(0, 0)>>, <<Word(0, 1)>>, <<Word(65535, 65535)>>,
     <<Word(32768, 0)>>, <<Ptr(1, 0)>>}
EntryArgs ==
    [s \in EntrySyms |->
        CASE s \in {"exit", "ExitProcess"} -> ExitArgs
          [] s = "setenv" ->
               {<<>>, <<NamePtr(<<65>>), NamePtr(<<>>)>>,
                <<NullName, NamePtr(<<>>)>>}
          [] s = "SetLastError" -> {<<>>, <<Raw(5)>>, <<Ptr(1, 0)>>}
          [] OTHER -> {<<>>} \cup {<<p>> : p \in PtrArgs}]
\* resumption points
TargetArgs == {1, 2}

NextEntry ==
    \/ call_foreign(EntryArgs, TargetArgs)
    \/ call_malloc({1})
    \/ call_posix_memalign({2, PointerSize}, {1})
    \/ stepper_resume

SpecEntry == Init /\ [][NextEntry]_vars

---------------------------------------------------------------------------
(* Randomness: the getrandom syscall, SecRandomCopyBytes and               *)
(* SystemFunction036 over gen_random.                                      *)

\* the guest's buffer (allocation 1), still undefined or filled with 7s,
\* a freed allocation (2), and the generator present (-Zmiri-seed) or not
InitRandom ==
    /\ \E byte \in {Undef, 7} :
           memory = [alloc_map |-> Insert(<<>>, 1, [kind |-> "C",
                                                    align |-> PointerSize,
                                                    bytes |-> [i \in 1..BufLen |-> byte]]),
                     dead_alloc_map |-> {2},
                     next_id |-> 3]
    /\ env_vars = <<>>
    /\ tls = EmptyTls
    /\ host = EmptyHost
    /\ set_values = <<>>
    /\ \E rng \in {NoRng, Rng(0)} : ecx = [EmptyEcx EXCEPT !.rng = rng]
    /\ last = NoCall

RandomPtrArgs == {Null, Raw(1), Ptr(1, 0), Ptr(1, 2), Ptr(2, 0)}
RandomLenArgs == {0, 1, 2, 3}
RandomArgs ==
    [s \in {"syscall", "SecRandomCopyBytes", "SystemFunction036"} |->
        CASE s = "syscall" ->
               {<<Raw(SYS_getrandom), p, Raw(n), Raw(0)>> :
                    p \in RandomPtrArgs, n \in RandomLenArgs}
               \cup {<<Raw(1), Null, Raw(0), Raw(0)>>}
          [] s = "SecRandomCopyBytes" ->
               {<<Null, Raw(n), p>> :
                    p \in RandomPtrArgs, n \in RandomLenArgs}
          [] OTHER ->
               {<<p, Raw(n)>> : p \in RandomPtrArgs, n \in RandomLenArgs}]

NextRandom ==
    \/ call_foreign(RandomArgs, {RetBlock})
    \/ stepper_resume

SpecRandom == InitRandom /\ [][NextRandom]_vars

---------------------------------------------------------------------------
(* The panic-catching shim and the frames it pushes.                       *)

\* f: null, an integer, functions of no, one and two arguments, a pointer
\* into a function; data: null or an integer
CatchArgs ==
    [s \in {"__rust_maybe_catch_panic", "SetLastError"} |->
        CASE s = "SetLastError" -> {<<Raw(5)>>}
          [] OTHER ->
               {<<f, data>> :
                    f \in {Null, Raw(1), GuestFn(0), GuestFn(1), GuestFn(2),
                           [GuestFn(1) EXCEPT !.off = 1]},
                    data \in {Null, Raw(9)}}]

NextCatch ==
    \/ call_foreign(CatchArgs, TargetArgs)
    \/ stepper_enter_frame
    \/ stepper_pop_frame
    \/ stepper_resume

SpecCatch == Init /\ [][NextCatch]_vars

---------------------------------------------------------------------------
(* calloc with large arguments.                                            *)

\* item counts and lengths from 0 to the top of a 32-bit usize: 0, 1, 2,
\* 2^16, 2^31 and 3 * 2^30
WideItemArgs ==
    {Wide(0, 0), Wide(1, 0), Wide(2, 0), Wide(1, 16), Wide(1, 31),
     Wide(3, 30)}

NextCalloc ==
    \/ call_calloc_wide(WideItemArgs)
    \/ call_free
    \/ stepper_resume

SpecCalloc == Init /\ [][NextCalloc]_vars

---------------------------------------------------------------------------
(* Properties.  `last` is the call that has just returned.                 *)

PreMemory == last.pre.memory
PreLive == Live(PreMemory)

\* the live allocations (ids, kinds, alignments, bytes) are those before
\* the call
AllocationsUnchanged == memory.alloc_map = PreMemory.alloc_map

\* every allocation that was live before the call is live and unmodified
LiveAllocationsKept ==
    \A i \in PreLive :
        i \in Live(memory) /\ memory.alloc_map[i] = PreMemory.alloc_map[i]

\* the call returned Ok, wrote `v` to the destination and resumed the caller
Returned(v) == last.err = "" /\ last.ret = v /\ last.resumed

\* s is the base pointer of an allocation that was live before the call
PreLivePtr(s) == s.id \in PreLive /\ s.off = 0

\* C1: a request of size 0 through malloc, calloc (items*len = 0) or
\* HeapAlloc returns null and leaves the live allocations unchanged; through
\* __rust_alloc or __rust_alloc_zeroed it fails with HeapAllocZeroBytes and
\* leaves the live allocations unchanged.
C1_ZeroSizeAllocation ==
    /\ (\/ last.sym = "malloc" /\ last.args[1] = 0
        \/ last.sym = "calloc" /\ last.args[1] * last.args[2] = 0
        \/ last.sym = "HeapAlloc" /\ last.args[3] = 0)
       => Returned(Null) /\ AllocationsUnchanged
    /\ (last.sym \in {"__rust_alloc", "__rust_alloc_zeroed"}
        /\ last.args[1] = 0)
       => /\ last.err = "HeapAllocZeroBytes"
          /\ ~last.resumed
          /\ AllocationsUnchanged

\* C1 witness: calloc(2, 0) returned while an allocation is live
C1_Witness ==
    /\ last.sym = "calloc" /\ last.args = <<2, 0>>
    /\ last.ret = Null
    /\ PreLive # {}

\* the requests that ask for zero-initialised memory, with their size
ZeroInitRequest ==
    \/ last.sym = "calloc" /\ last.args[1] * last.args[2] > 0
    \/ last.sym = "HeapAlloc" /\ last.args[2] \in {8, 9} /\ last.args[3] > 0
    \/ /\ last.sym = "__rust_alloc_zeroed"
       /\ last.args[1] > 0 /\ last.args[2] \in {1, 2, 4, 8}

ZeroInitSize ==
    IF last.sym = "calloc" THEN last.args[1] * last.args[2]
    ELSE IF last.sym = "HeapAlloc" THEN last.args[3]
    ELSE last.args[1]

\* C2: calloc, HeapAlloc with HEAP_ZERO_MEMORY and __rust_alloc_zeroed, asked
\* for size > 0, return the base pointer of a fresh live allocation of
\* exactly `size` bytes, each of which reads as 0.
C2_ZeroInitialisation ==
    ZeroInitRequest =>
        /\ last.err = "" /\ last.resumed
        /\ last.ret = Ptr(PreMemory.next_id, 0)
        /\ last.ret.id \notin PreLive \cup PreMemory.dead_alloc_map
        /\ last.ret.id \in Live(memory)
        /\ Len(memory.alloc_map[last.ret.id].bytes) = ZeroInitSize
        /\ \A i \in 1..ZeroInitSize :
               memory.alloc_map[last.ret.id].bytes[i] = 0

\* C2 witness: HeapAlloc(_, HEAP_ZERO_MEMORY, 2) returned a pointer
C2_Witness ==
    /\ last.sym = "HeapAlloc" /\ last.args[2] = 8 /\ last.args[3] = 2
    /\ last.ret.id > 0

\* C3: free(null) and HeapFree(_, _, null) return without error and leave
\* the allocations and their bytes, the environment store and the TLS table
\* as they were.
C3_FreeNullNoEffect ==
    (\/ last.sym = "free" /\ last.args[1] = Null
     \/ last.sym = "HeapFree" /\ last.args[3] = Null)
    => /\ last.err = "" /\ last.resumed
       /\ memory = PreMemory
       /\ env_vars = last.pre.env_vars
       /\ tls = last.pre.tls

\* C3 witness: free(null) returned in a state with a live heap allocation,
\* an environment variable and a TLS key
C3_Witness ==
    /\ last.sym = "free" /\ last.args[1] = Null /\ last.err = ""
    /\ \E i \in Live(memory) : memory.alloc_map[i].kind = "C"
    /\ DOMAIN env_vars # {}
    /\ tls.next_key > 0

\* C4 as claimed: __rust_dealloc with a null pointer, a non-zero size and a
\* power-of-two alignment succeeds and leaves the live allocations unchanged.
C4_NullDeallocSucceeds ==
    (/\ last.sym = "__rust_dealloc" /\ last.args[1] = Null
     /\ last.args[2] # 0 /\ last.args[3] \in {1, 2, 4, 8})
    => last.err = "" /\ AllocationsUnchanged

\* C4 as amended: __rust_dealloc with a null pointer fails, for every size
\* and alignment, with InvalidNullPointerUsage (the pointer is read with
\* to_ptr before anything else); the caller is not resumed and the memory
\* is unchanged.
C4_NullDeallocFails ==
    (last.sym = "__rust_dealloc" /\ last.args[1] = Null)
    => /\ last.err = "InvalidNullPointerUsage"
       /\ ~last.resumed /\ last.ret = NoVal
       /\ memory = PreMemory

\* C4 witness: __rust_dealloc(null, 1, 4) failed while a language-heap
\* allocation is live
C4_Witness ==
    /\ last.sym = "__rust_dealloc" /\ last.args = <<Null, 1, 4>>
    /\ last.err # ""
    /\ \E i \in PreLive : PreMemory.alloc_map[i].kind = "Rust"

\* __rust_dealloc or __rust_realloc on the base pointer of a live
\* language-heap allocation
TrackedCallOnLive ==
    /\ last.sym \in {"__rust_dealloc", "__rust_realloc"}
    /\ PreLivePtr(last.args[1])
    /\ PreMemory.alloc_map[last.args[1].id].kind = "Rust"

\* the old size and the alignment supplied are the recorded ones
PairingMatches ==
    /\ last.args[2] = Len(PreMemory.alloc_map[last.args[1].id].bytes)
    /\ last.args[3] = PreMemory.alloc_map[last.args[1].id].align

\* C5: __rust_dealloc and __rust_realloc on a live language-heap allocation
\* fail whenever the supplied old size or alignment differs from the
\* recorded one; a call that succeeds was given both as recorded.
C5_SizeAlignPairing ==
    TrackedCallOnLive =>
        /\ ~PairingMatches =>
               last.err # "" /\ ~last.resumed /\ last.ret = NoVal
        /\ last.err = "" => PairingMatches

\* C5 witness: __rust_realloc with the recorded size but another (power of
\* two) alignment failed
C5_Witness ==
    /\ last.sym = "__rust_realloc" /\ TrackedCallOnLive
    /\ last.args[2] = Len(PreMemory.alloc_map[last.args[1].id].bytes)
    /\ last.args[3] \in {4, 8}
    /\ last.args[3] # PreMemory.alloc_map[last.args[1].id].align
    /\ last.args[4] > 0
    /\ last.err # ""

\* realloc or HeapReAlloc with a null input pointer; its new size
ReallocOfNull ==
    \/ last.sym = "realloc" /\ last.args[1] = Null
    \/ last.sym = "HeapReAlloc" /\ last.args[3] = Null

ReallocNewSize ==
    IF last.sym = "realloc" THEN last.args[2] ELSE last.args[4]

\* C6: realloc(null, n) and HeapReAlloc(_, _, null, n) give the result and
\* the memory that malloc(n) gives from the same state: null and no
\* allocation for n = 0, otherwise the base pointer of a fresh,
\* pointer-aligned, uninitialised C-heap allocation of n bytes.
C6_ReallocNullIsMalloc ==
    ReallocOfNull =>
        /\ Returned(malloc(PreMemory, ReallocNewSize, FALSE).val)
        /\ memory = malloc(PreMemory, ReallocNewSize, FALSE).m
        /\ ReallocNewSize = 0 =>
               last.ret = Null /\ memory = PreMemory
        /\ ReallocNewSize > 0 =>
               /\ last.ret = Ptr(PreMemory.next_id, 0)
               /\ Live(memory) = PreLive \cup {PreMemory.next_id}
               /\ LiveAllocationsKept
               /\ memory.alloc_map[last.ret.id] =
                      [kind |-> "C", align |-> PointerSize,
                       bytes |-> [i \in 1..ReallocNewSize |-> Undef]]

\* C6 witness: HeapReAlloc(_, _, null, 2) returned a pointer while another
\* allocation is live
C6_Witness ==
    /\ last.sym = "HeapReAlloc" /\ last.args[3] = Null /\ last.args[4] = 2
    /\ last.ret.id > 0
    /\ PreLive # {}

\* C7 as claimed: realloc(ptr, 0) on the base pointer of any live C-heap
\* allocation deallocates it and returns null; __rust_realloc with new size
\* 0 on a live language-heap allocation fails with HeapAllocZeroBytes and
\* the allocation stays live.
C7_ReallocToZero ==
    /\ (/\ last.sym = "realloc" /\ last.args[2] = 0
        /\ PreLivePtr(last.args[1])
        /\ PreMemory.alloc_map[last.args[1].id].kind = "C")
       => /\ Returned(Null)
          /\ last.args[1].id \notin Live(memory)
    /\ (/\ last.sym = "__rust_realloc" /\ last.args[4] = 0
        /\ PreLivePtr(last.args[1])
        /\ PreMemory.alloc_map[last.args[1].id].kind = "Rust")
       => /\ last.err = "HeapAllocZeroBytes"
          /\ memory = PreMemory

\* the alignment argument of the calls that take one
TakesAlign ==
    last.sym \in {"__rust_alloc", "__rust_alloc_zeroed", "__rust_dealloc",
                  "__rust_realloc", "posix_memalign"}

AlignArg ==
    IF last.sym \in {"__rust_dealloc", "__rust_realloc"} THEN last.args[3]
    ELSE last.args[2]

NotPowerOfTwo(n) == n \notin {1, 2, 4, 8, 16}

\* posix_memalign with a power-of-two alignment below the pointer size
AlignTooSmall ==
    /\ last.sym = "posix_memalign"
    /\ ~NotPowerOfTwo(last.args[2]) /\ last.args[2] < PointerSize

EarlierCheckFails ==
    \/ /\ last.sym \in {"__rust_alloc", "__rust_alloc_zeroed"}
       /\ last.args[1] = 0
    \/ /\ last.sym \in {"__rust_dealloc", "__rust_realloc"}
       /\ (last.args[1].id = 0 \/ last.args[2] = 0)
    \/ last.sym = "__rust_realloc" /\ last.args[4] = 0

Releasing ==
    last.sym \in {"free", "HeapFree", "realloc", "HeapReAlloc",
                  "__rust_dealloc", "__rust_realloc"}

ReleasedPtr ==
    IF last.sym \in {"HeapFree", "HeapReAlloc"} THEN last.args[3]
    ELSE last.args[1]

\* the call was given the base pointer of an allocation that had been
\* deallocated before the call
UseAfterFree ==
    /\ Releasing
    /\ ReleasedPtr.id \in PreMemory.dead_alloc_map /\ ReleasedPtr.off = 0

MemoryAccessErrors == {"DoubleFree", "DanglingPointerDeref"}

\* C9 as claimed: every deallocating or reallocating call on a pointer whose
\* allocation is already deallocated fails with a memory-access error and
\* changes no live allocation.
C9_UseAfterFreeIsAccessError ==
    UseAfterFree
    => /\ last.err \in MemoryAccessErrors
       /\ LiveAllocationsKept

\* the size and alignment arguments of a tracked call pass its validation
TrackedArgsValid ==
    /\ last.sym \in {"__rust_dealloc", "__rust_realloc"}
       => last.args[2] # 0 /\ ~NotPowerOfTwo(last.args[3])
    /\ last.sym = "__rust_realloc" => last.args[4] # 0

\* C9 as amended: a deallocating or reallocating call on a pointer whose
\* allocation is already deallocated never succeeds and leaves every live
\* allocation live and unmodified; it fails with a memory-access error
\* unless it is __rust_dealloc or __rust_realloc with a zero size or an
\* alignment that is no power of two, which fail with the error of that
\* argument check.
C9_UseAfterFreeFails ==
    UseAfterFree
    => /\ last.err # "" /\ ~last.resumed /\ last.ret = NoVal
       /\ LiveAllocationsKept
       /\ TrackedArgsValid => last.err \in MemoryAccessErrors
       /\ ~TrackedArgsValid
          => last.err \in {"HeapAllocZeroBytes",
                           "HeapAllocNonPowerOfTwoAlignment"}

\* C9 witness: free of an already freed pointer failed while another
\* allocation is live
C9_Witness ==
    /\ last.sym = "free" /\ UseAfterFree
    /\ last.err = "DoubleFree"
    /\ PreLive # {}

\* the memory kind a deallocating or reallocating entry point works on
FamilyKind ==
    IF last.sym \in {"__rust_dealloc", "__rust_realloc"} THEN "Rust" ELSE "C"

\* the call was given the base pointer of a live allocation of another
\* family (C heap, language heap, environment buffer)
CrossKind ==
    /\ Releasing
    /\ PreLivePtr(ReleasedPtr)
    /\ PreMemory.alloc_map[ReleasedPtr.id].kind # FamilyKind

WindowAt(s, n) ==
    SubSeq(PreMemory.alloc_map[s.id].bytes, s.off + 1, s.off + n)

\* C11: a memcmp that returns has compared the n bytes at each pointer as
\* unsigned bytes: it returns 0 when the windows are equal (n = 0
\* included), -1 when left is smaller at the first index where they differ,
\* 1 when it is greater, and never another value.
C11_MemcmpSign ==
    (last.sym = "memcmp" /\ last.err = "")
    => LET n == last.args[3]
           l == IF n = 0 THEN <<>> ELSE WindowAt(last.args[1], n)
           r == IF n = 0 THEN <<>> ELSE WindowAt(last.args[2], n)
           d == {i \in 1..n : l[i] # r[i]}
       IN  /\ last.resumed
           /\ last.ret \in {Raw(-1), Raw(0), Raw(1)}
           /\ last.ret = Raw(0) <=> d = {}
           /\ last.ret = Raw(-1)
              <=> \E k \in d : l[k] < r[k] /\ \A j \in d : k <= j
           /\ last.ret = Raw(1)
              <=> \E k \in d : l[k] > r[k] /\ \A j \in d : k <= j

\* C11 witness: memcmp of two windows that share their first byte and
\* differ in the second, the left one holding the byte 200 against 1
C11_Witness ==
    /\ last.sym = "memcmp" /\ last.err = "" /\ last.args[3] = 2
    /\ WindowAt(last.args[1], 2) = <<1, 200>>
    /\ WindowAt(last.args[2], 2) = <<1, 1>>
    /\ last.ret = Raw(1)

\* the bytes of the window memchr and memrchr were given that equal the
\* value truncated to 8 bits, as indices from 0
ChrCall == last.sym \in {"memchr", "memrchr"} /\ last.err = ""

ChrMatches ==
    LET n == last.args[3]
        w == IF n = 0 THEN <<>> ELSE WindowAt(last.args[1], n)
    IN  {i \in 0..(n - 1) : (w[i + 1] - last.args[2]) % 256 = 0}

\* C12: a memchr that returns gives the pointer moved by the smallest index
\* below n whose byte equals val truncated to 8 bits, memrchr by the largest;
\* both give null exactly when no byte of the window matches (n = 0
\* included); the pointer returned is into the allocation of ptr.
C12_MemchrFirstLast ==
    ChrCall
    => /\ last.resumed
       /\ last.ret = Null <=> ChrMatches = {}
       /\ ChrMatches # {}
          => /\ last.ret.id = last.args[1].id
             /\ last.ret.off - last.args[1].off \in ChrMatches
             /\ \A i \in ChrMatches :
                    IF last.sym = "memchr"
                    THEN last.ret.off - last.args[1].off <= i
                    ELSE last.ret.off - last.args[1].off >= i

\* C12 witness: memrchr found the last of several matches, for a value
\* that needed truncation
C12_Witness ==
    /\ ChrCall /\ last.sym = "memrchr"
    /\ last.args[2] \notin 0..255
    /\ Cardinality(ChrMatches) >= 2
    /\ last.ret = PtrOffset(last.args[1], 2)

\* the window of n >= 1 bytes at s is not inside one live allocation
WindowOutside(s, n) ==
    \/ s.id \notin PreLive
    \/ s.off + n > Len(PreMemory.alloc_map[s.id].bytes)

\* a byte primitive was given a window of n >= 1 bytes that is not inside
\* one live allocation
TruncatedWindow ==
    /\ last.sym \in {"memcmp", "memchr", "memrchr"}
    /\ last.args[3] >= 1
    /\ \/ WindowOutside(last.args[1], last.args[3])
       \/ last.sym = "memcmp" /\ WindowOutside(last.args[2], last.args[3])

\* the errors of a read of guest memory (the read of the other window
\* of memcmp may fail first, on undefined bytes)
ReadErrors ==
    {"DanglingPointerDeref", "PointerOutOfBounds", "InvalidNullPointerUsage",
     "ReadBytesAsPointer", "ReadUndefBytes"}

\* C13: memcmp, memchr and memrchr fail with a memory-access error, write
\* nothing to the destination and do not resume the caller whenever the
\* window of n bytes at an input pointer is not entirely inside one live
\* allocation, also when the bytes that are in bounds decide the answer.
C13_NoTruncatedWindow ==
    TruncatedWindow
    => /\ last.err \in ReadErrors
       /\ last.ret = NoVal /\ ~last.resumed
       /\ memory = PreMemory

\* C13 witness: memchr failed on a window that runs past the end of the
\* buffer although its first byte is the one searched for
C13_Witness ==
    /\ last.sym = "memchr" /\ last.err = "PointerOutOfBounds"
    /\ last.args[1].id \in PreLive
    /\ last.args[1].off < Len(PreMemory.alloc_map[last.args[1].id].bytes)
    /\ PreMemory.alloc_map[last.args[1].id].bytes[last.args[1].off + 1]
       = last.args[2]

\* a write or WriteFile that returned, by its destination
WroteTo(fd, handle) ==
    /\ last.err = ""
    /\ \/ last.sym = "write" /\ last.args[1] = fd
       \/ last.sym = "WriteFile" /\ last.args[1] = handle

\* C14 as claimed: when write (fd 1) or WriteFile (handle -11) returns, the
\* bytes were written to the host's standard output and the stream was
\* flushed after the write; a write to standard error (fd 2, handle -12)
\* went to the host's standard error without a flush.
C14_StdoutFlushedBeforeReturn ==
    /\ WroteTo(1, -11)
       => /\ host.ops = <<"stdout.write", "stdout.flush">>
          /\ ~host.unflushed
    /\ WroteTo(2, -12) => host.ops = <<"stderr.write">>

\* the bytes of the allocation s points to
BufferAt(s) == memory.alloc_map[s.id].bytes

\* C15: getenv(name) returns the pointer to the buffer installed by the
\* most recent setenv(name, v) that returned 0 and was not followed by an
\* unsetenv(name) that returned 0, and the buffer holds the bytes of v and
\* a 0 byte; when there is no such setenv, getenv(name) returns null.
C15_GetenvReflectsStore ==
    (last.sym = "getenv" /\ ~last.args[1].null)
    => LET name == last.args[1].str
       IN  /\ last.err = "" /\ last.resumed
           /\ name \in DOMAIN set_values
              => /\ last.ret.id \in Live(memory) /\ last.ret.off = 0
                 /\ last.ret = env_vars[name]
                 /\ BufferAt(last.ret) = set_values[name] \o <<0>>
           /\ name \notin DOMAIN set_values => last.ret = Null

\* C15 witness: getenv of a name that was set and then set again to
\* another value returned the latest buffer
C15_Witness ==
    /\ last.sym = "getenv" /\ last.err = ""
    /\ last.ret.id = 2
    /\ BufferAt(last.ret) = <<120, 0>>
    /\ 1 \in memory.dead_alloc_map

\* setenv's name argument is null, empty or contains '='
InvalidName(name) ==
    name.null \/ name.str = <<>> \/ \E i \in 1..Len(name.str) : name.str[i] = 61

\* setenv was called with a value that is a C string
SetenvCall == last.sym = "setenv" /\ ~last.args[2].null

\* C16: setenv with a null or empty name or a name that contains '='
\* (and a value that is a C string) returns -1, leaves the environment
\* store as it was (same names, same buffer pointers) and creates or
\* destroys no allocation.
C16_SetenvInvalidName ==
    (SetenvCall /\ InvalidName(last.args[1]))
    => /\ Returned(Raw(-1))
       /\ env_vars = last.pre.env_vars
       /\ memory = PreMemory

\* C16 witness: setenv("A=", ..) returned -1 while a name is set
C16_Witness ==
    /\ SetenvCall /\ last.args[1] = NamePtr(<<65, 61>>)
    /\ last.ret = Raw(-1)
    /\ DOMAIN env_vars # {}

\* C17: setenv with a valid name (and a value that is a C string) returns
\* 0 and maps the name to a fresh allocation of kind Env of len(value)+1
\* bytes, the value followed by a 0 byte; the buffer the name had before is
\* deallocated; every other name keeps its buffer, untouched.
C17_SetenvReplaces ==
    (SetenvCall /\ ~InvalidName(last.args[1]))
    => LET name == last.args[1].str
           value == last.args[2].str
           old == last.pre.env_vars
       IN  /\ Returned(Raw(0))
           /\ DOMAIN env_vars = DOMAIN old \cup {name}
           /\ env_vars[name] = Ptr(PreMemory.next_id, 0)
           /\ env_vars[name].id \notin PreLive \cup PreMemory.dead_alloc_map
           /\ env_vars[name].id \in Live(memory)
           /\ memory.alloc_map[env_vars[name].id].kind = "Env"
           /\ Len(BufferAt(env_vars[name])) = Len(value) + 1
           /\ BufferAt(env_vars[name]) = value \o <<0>>
           /\ name \in DOMAIN old
              => /\ old[name].id \notin Live(memory)
                 /\ old[name].id \in memory.dead_alloc_map
           /\ \A n \in DOMAIN old \ {name} :
                  /\ env_vars[n] = old[n]
                  /\ old[n].id \in Live(memory)
                  /\ memory.alloc_map[old[n].id] = PreMemory.alloc_map[old[n].id]

\* C17 witness: setenv replaced the buffer of a name while another name
\* is set
C17_Witness ==
    /\ SetenvCall /\ last.err = "" /\ last.ret = Raw(0)
    /\ last.args[1].str \in DOMAIN last.pre.env_vars
    /\ DOMAIN last.pre.env_vars # {last.args[1].str}
    /\ last.pre.env_vars[last.args[1].str].id \in memory.dead_alloc_map

\* C18 as claimed: unsetenv returns -1 when the name is empty, contains
\* '=' or is not in the store, and 0 only when it removed an entry.
C18_UnsetenvNotFound ==
    last.sym = "unsetenv"
    => /\ (\/ InvalidName(last.args[1])
           \/ last.args[1].str \notin DOMAIN last.pre.env_vars)
          => Returned(Raw(-1))
       /\ Returned(Raw(0))
          => last.args[1].str \in DOMAIN last.pre.env_vars

\* C18 as amended: unsetenv returns -1 exactly when the name is null, empty
\* or contains '=', and then changes nothing; for every other name it
\* returns 0, whether or not the name was in the store: an entry that was
\* there is removed and its buffer deallocated, and without an entry
\* nothing changes.
C18_UnsetenvResult ==
    last.sym = "unsetenv"
    => LET old == last.pre.env_vars
       IN  /\ InvalidName(last.args[1])
              => /\ Returned(Raw(-1))
                 /\ env_vars = old /\ memory = PreMemory
           /\ ~InvalidName(last.args[1])
              => /\ Returned(Raw(0))
                 /\ DOMAIN env_vars = DOMAIN old \ {last.args[1].str}
                 /\ \A n \in DOMAIN env_vars : env_vars[n] = old[n]
                 /\ last.args[1].str \in DOMAIN old
                    => /\ old[last.args[1].str].id \in memory.dead_alloc_map
                       /\ Live(memory)
                          = PreLive \ {old[last.args[1].str].id}
                 /\ last.args[1].str \notin DOMAIN old
                    => memory = PreMemory

\* C18 witness: a second unsetenv of a name, after the one that removed
\* it, returned 0
C18_Witness ==
    /\ last.sym = "unsetenv" /\ last.args[1] = NamePtr(<<65>>)
    /\ last.ret = Raw(0)
    /\ <<65>> \notin DOMAIN last.pre.env_vars
    /\ PreMemory.dead_alloc_map # {}
    /\ memory = PreMemory

\* every name of the store is non-empty and has no '=', and no two names
\* share a buffer
StoreWellFormed ==
    /\ \A n \in DOMAIN env_vars : ~InvalidName(NamePtr(n))
    /\ \A n1, n2 \in DOMAIN env_vars :
           env_vars[n1] = env_vars[n2] => n1 = n2

\* every name maps to the base of a live allocation of kind Env that ends
\* in a 0 byte
BuffersLive ==
    \A n \in DOMAIN env_vars :
        /\ env_vars[n].off = 0
        /\ env_vars[n].id \in Live(memory)
        /\ memory.alloc_map[env_vars[n].id].kind = "Env"
        /\ BufferAt(env_vars[n]) # <<>>
        /\ BufferAt(env_vars[n])[Len(BufferAt(env_vars[n]))] = 0

\* no live allocation of kind Env is without a name
NoLeakedBuffer ==
    \A i \in Live(memory) :
        memory.alloc_map[i].kind = "Env"
        => \E n \in DOMAIN env_vars : env_vars[n].id = i

KeyCall == last.sym \in {"pthread_key_create", "TlsAlloc"}

KeyBits == IF last.sym = "TlsAlloc" THEN last.args[1] ELSE last.args[3]

KeyCreated == tls.next_key = last.pre.tls.next_key + 1

NewKey == last.pre.tls.next_key

KeyHanded == IF last.sym = "TlsAlloc" THEN last.ret ELSE last.out

\* the largest value of a key type; every key id of the model fits 32 bits
KeyTypeMax(bits) == IF bits = 8 THEN 255 ELSE 2147483647

\* C20: when pthread_key_create or TlsAlloc has created a key whose id does
\* not fit the key type, the call fails with OutOfTls, writes neither the
\* key location nor the destination and does not resume the caller; a key
\* the guest is handed is the id that was created, never a truncation of
\* it.
C20_NoKeyWraparound ==
    (KeyCall /\ KeyCreated)
    => /\ NewKey > KeyTypeMax(KeyBits)
          => /\ last.err = "OutOfTls"
             /\ last.out = NoVal /\ last.ret = NoVal
             /\ ~last.resumed
             /\ memory = PreMemory
       /\ last.err = ""
          => /\ KeyHanded = Raw(NewKey)
             /\ NewKey <= KeyTypeMax(KeyBits)

\* C20 witness: the key 256 was created for an 8-bit key type and
\* pthread_key_create failed with OutOfTls
C20_Witness ==
    /\ last.sym = "pthread_key_create" /\ KeyCreated
    /\ KeyBits = 8 /\ NewKey = 256
    /\ last.args[1] = "valid"
    /\ last.err = "OutOfTls"




---------------------------------------------------------------------------
(* Randomness (SpecRandom).                                                *)

\* the call reached gen_random's caller: one of the three handlers, with
\* a destination, and for syscall the id of getrandom
RandomCall ==
    /\ last.dest
    /\ \/ last.sym \in {"SecRandomCopyBytes", "SystemFunction036"}
       \/ last.sym = "syscall" /\ last.args[1] = Raw(SYS_getrandom)
\* the length and the buffer the handler passes to gen_random
RandomLen ==
    CASE last.sym = "syscall" -> last.args[3].off
      [] last.sym = "SecRandomCopyBytes" -> last.args[2].off
      [] OTHER -> last.args[2].off
RandomDest ==
    CASE last.sym = "syscall" -> last.args[2]
      [] last.sym = "SecRandomCopyBytes" -> last.args[3]
      [] OTHER -> last.args[1]
\* what each handler writes to its destination on success: the length, 0,
\* and `true`
RandomSuccess ==
    CASE last.sym = "syscall" -> Raw(RandomLen)
      [] last.sym = "SecRandomCopyBytes" -> Raw(0)
      [] OTHER -> Raw(1)
\* the buffer is a pointer to RandomLen bytes of a live allocation
RandomDestValid ==
    /\ RandomDest.id > 0
    /\ CheckPtrAccess(PreMemory, RandomDest, RandomLen, 1) = ""
\* the bytes of the buffer's allocation: those of the window are the next
\* RandomLen bytes of the generator, the others are as before
RandomFilled ==
    LET old == PreMemory.alloc_map[RandomDest.id].bytes
        new == memory.alloc_map[RandomDest.id].bytes
        off == RandomDest.off
    IN  /\ DOMAIN new = DOMAIN old
        /\ \A i \in DOMAIN new :
             new[i] = IF i > off /\ i <= off + RandomLen
                      THEN RandByte(last.pre.rng.pos + (i - off))
                      ELSE old[i]
        /\ [memory EXCEPT !.alloc_map[RandomDest.id].bytes = old]
             = PreMemory

\* C21: gen_random's success path.  With len = 0 the call succeeds and
\* changes neither memory nor the generator, whatever dest is (null, an
\* integer, dangling) and whether or not a generator is present.  With
\* len > 0, a generator present and dest pointing to len bytes of a live
\* allocation, exactly the len bytes at dest are overwritten with the
\* generator's next len bytes, everything else in memory is unchanged, and
\* the handler returns its success value (syscall: len, SecRandomCopyBytes:
\* 0, SystemFunction036: true) and resumes.
C21_GenRandomSuccess ==
    RandomCall =>
      /\ (last.args # <<>> /\ RandomLen = 0) =>
            /\ Returned(RandomSuccess)
            /\ memory = PreMemory
            /\ ecx.rng = last.pre.rng
      /\ (RandomLen > 0 /\ last.pre.rng # NoRng /\ RandomDestValid) =>
            /\ Returned(RandomSuccess)
            /\ RandomFilled
            /\ ecx.rng = Rng(last.pre.rng.pos + RandomLen)

\* getrandom filled two bytes in the middle of the buffer
C21_Witness ==
    /\ RandomCall
    /\ last.sym = "syscall"
    /\ RandomLen = 2
    /\ RandomDest = Ptr(1, 2)
    /\ last.pre.rng # NoRng
    /\ Returned(Raw(2))
    /\ memory # PreMemory

\* the diagnostic of gen_random without a generator
EntropyUnavailable ==
    /\ last.err = "Unimplemented"
    /\ last.msg = <<"miri does not support gathering system entropy in deterministic mode!">>
\* the call failed: nothing was written to the buffer or to the
\* destination, and the stepper was not resumed
FailedWithoutEffect ==
    /\ last.err # ""
    /\ memory = PreMemory
    /\ last.ret = NoVal
    /\ ~last.resumed

\* C22 as stated: without a generator every request, of every length,
\* fails with the entropy diagnostic, writes nothing and does not resume.
C22_DisabledAlwaysFails ==
    (RandomCall /\ last.pre.rng = NoRng) =>
        EntropyUnavailable /\ FailedWithoutEffect

\* C22 (amended): without a generator every request of a length above 0
\* fails, writes nothing to the buffer or to the destination, and does not
\* resume; the failure is the entropy diagnostic when the buffer is a
\* pointer, and the pointer conversion's error when it is null or an
\* integer.  A request of length 0 succeeds (gen_random returns before it
\* looks for the generator).
C22_DisabledFails ==
    (RandomCall /\ last.pre.rng = NoRng) =>
      /\ RandomLen > 0 =>
            /\ FailedWithoutEffect
            /\ IF RandomDest.id > 0 THEN EntropyUnavailable
               ELSE last.err = ToPtrErr(RandomDest)
      /\ RandomLen = 0 => Returned(RandomSuccess)

\* no generator, two bytes asked for a live buffer: the diagnostic
C22_Witness ==
    /\ RandomCall
    /\ last.pre.rng = NoRng
    /\ last.sym = "SecRandomCopyBytes"
    /\ RandomLen = 2
    /\ RandomDest = Ptr(1, 0)
    /\ EntropyUnavailable
    /\ FailedWithoutEffect


---------------------------------------------------------------------------
(* The entry point (SpecEntry).                                            *)

\* the frame the call was made from
CallerFrame == ecx.stack[Len(ecx.stack)]
\* the call left the stepper where it was: goto_block was not called, the
\* destination was not written
NotReturned ==
    /\ ~last.resumed
    /\ last.gotos = <<>>
    /\ last.ret = NoVal
    /\ ecx.stack = last.pre.stack
\* code is the 32 bits <<hi, lo>> read as a signed number: it lies in the
\* range of i32 and agrees with the bits modulo 2^32
SignedValueOf(code, w) ==
    /\ code >= 0 - 2147483647 - 1
    /\ code <= 2147483647
    /\ code % 65536 = w[2]
    /\ (code \div 65536) % 65536 = w[1]

\* C23: a call of exit, ExitProcess, __rust_start_panic or panic_impl never
\* resumes the stepper and never writes the destination, with or without
\* a destination and resumption point; exit and ExitProcess, given an
\* integer as first argument, end the run with Exit carrying that
\* argument's 32 bits read as a signed integer.
C23_DivergingNeverReturns ==
    last.sym \in Diverging =>
      /\ NotReturned
      /\ (last.err # "" \/ last.abort # "")
      /\ (/\ last.sym \in {"exit", "ExitProcess"}
          /\ last.args # <<>>
          /\ last.args[1].id = 0) =>
            /\ last.err = "Exit"
            /\ Len(last.msg) = 1
            /\ SignedValueOf(last.msg[1], last.args[1].off)

\* ExitProcess(0xFFFFFFFF) called with a destination: Exit(-1)
C23_Witness ==
    /\ last.sym = "ExitProcess"
    /\ last.dest
    /\ last.args = <<Word(65535, 65535)>>
    /\ last.err = "Exit"
    /\ last.msg = <<0 - 1>>
    /\ NotReturned

\* the error of a panic
PanicError ==
    /\ last.err = "MachineError"
    /\ last.msg = <<"the evaluated program panicked">>
\* the symbols of the claim: process abort and panic
AbortOrPanic == {"abort", "__rust_start_panic", "panic_impl"}
\* the error kind the entry point returns for a symbol of AbortOrPanic
\* (it depends on nothing but the symbol)
KindOf(sym) == emulate_foreign_item(sym, <<>>, FALSE, NoBlock).err
\* a failure of a call of a non-diverging symbol
OrdinaryFailure ==
    /\ last.sym \notin AbortOrPanic \cup Diverging \cup {"", "<return>"}
    /\ last.err # ""

Unmatched == {"abort", "foo"}
\* the call changed nothing: allocations, environment store, TLS table,
\* last-error cell, generator and frames are those from before the call
StateUnchanged == Emulated = last.pre

\* C25: a call of a symbol that matches no arm fails with Unimplemented and
\* a message that ends in the symbol ("can't call foreign function: " with
\* a destination, "can't call diverging foreign function: " without); it
\* does not resume, writes no destination and leaves all emulated state
\* unchanged.
C25_ClosedWorld ==
    last.sym \in Unmatched =>
      /\ last.err = "Unimplemented"
      /\ last.msg = <<IF last.dest THEN "can't call foreign function: "
                      ELSE "can't call diverging foreign function: ",
                      last.sym>>
      /\ NotReturned
      /\ StateUnchanged

\* foo called with a destination and a live pointer, after SetLastError
C25_Witness ==
    /\ last.sym = "foo"
    /\ last.dest
    /\ last.args = <<Ptr(1, 0)>>
    /\ 1 \in Live(memory)
    /\ ecx.last_error = 5
    /\ last.err = "Unimplemented"
    /\ last.msg = <<"can't call foreign function: ", "foo">>

\* C26: a call of a non-diverging symbol without a destination fails
\* before any handler arm is entered (the arms are where arguments are
\* read), for symbols that have an arm as for those that have none, and
\* changes no emulated state.
C26_DestinationRequired ==
    (last.sym \in EntrySyms \ Diverging /\ ~last.dest) =>
      /\ last.err # ""
      /\ last.abort = ""
      /\ last.handler = ""
      /\ NotReturned
      /\ StateUnchanged

\* free of a live allocation, called without a destination: it stays live
C26_Witness ==
    /\ last.sym = "free"
    /\ ~last.dest
    /\ last.args = <<Ptr(1, 0)>>
    /\ 1 \in Live(memory)
    /\ last.err = "Unimplemented"

\* the call went through a handler arm that ends in the common goto_block
\* and returned Ok
OrdinarySuccess ==
    /\ last.sym \in EntrySyms \cup {"malloc", "posix_memalign"}
    /\ last.sym \notin SpecialCased
    /\ last.err = ""
    /\ last.abort = ""

\* C27: a call that returns Ok through an ordinary handler has called
\* goto_block exactly once, with the resumption point supplied, and the
\* caller's frame is at that block; the handler's effects (the destination
\* value among them) are in place in that state.  A call that fails has
\* not called goto_block and the caller's frame is where it was.
C27_ResumptionProtocol ==
    /\ OrdinarySuccess =>
          /\ last.resumed
          /\ last.dest
          /\ last.target # NoBlock
          /\ last.gotos = <<last.target>>
          /\ CallerFrame.block = last.target
    /\ (last.err # "" \/ last.abort # "") =>
          /\ ~last.resumed
          /\ last.gotos = <<>>
          /\ CallerFrame.block = CallBlock

\* free of a live allocation resumed at block 2, the allocation is gone
C27_Witness ==
    /\ last.sym = "free"
    /\ last.args = <<Ptr(1, 0)>>
    /\ last.target = 2
    /\ last.gotos = <<2>>
    /\ CallerFrame.block = 2
    /\ 1 \in PreLive
    /\ 1 \notin Live(memory)

\* C28: a lock stub called with a destination returns 0 and resumes, in
\* every reachable state and whatever calls came before (no state records
\* a lock), and changes nothing but the destination and the caller's block.
C28_LockStubsNeverBlock ==
    (last.sym \in LockStubs /\ last.dest) =>
      /\ Returned(Raw(0))
      /\ last.abort = ""
      /\ memory = PreMemory
      /\ env_vars = last.pre.env_vars
      /\ tls = last.pre.tls
      /\ ecx = goto_block([ecx EXCEPT !.stack = last.pre.stack,
                                      !.last_error = last.pre.last_error,
                                      !.rng = last.pre.rng],
                          last.target)

\* pthread_mutex_lock on a mutex in a live allocation returned 0
C28_Witness ==
    /\ last.sym = "pthread_mutex_lock"
    /\ last.args = <<Ptr(1, 0)>>
    /\ 1 \in Live(memory)
    /\ Returned(Raw(0))

\* C29: the entry point returns Ok or an InterpError for every symbol,
\* argument count and call shape; the interpreter itself never panics.
C29_NeverAborts == last.abort = ""


---------------------------------------------------------------------------
(* The panic-catching shim (SpecCatch).                                    *)

\* the shim was called with a destination and a function pointer f
CatchCall ==
    /\ last.sym = "__rust_maybe_catch_panic"
    /\ last.dest
    /\ last.args[1].id <= 0 - 2
    /\ last.args[1].off = 0

\* C30: called with a function of one argument, the shim returns Ok with 0
\* written to the destination and without calling goto_block: the caller's
\* frame stays at the call, and on top of it there is exactly one new
\* frame, for f, at its first block, with data in its argument and the
\* call's resumption point as the block its completion goes to.  When that
\* frame returns, the caller is at the resumption point the frame carried.
\* Called with a function of no argument, the shim fails with AbiViolation.
C30_CatchPanicPushesFrame ==
    /\ (CatchCall /\ ArgCount(last.args[1]) = 1) =>
          /\ last.err = ""
          /\ last.abort = ""
          /\ last.ret = Raw(0)
          /\ last.gotos = <<>>
          /\ ~last.resumed
          /\ ecx.stack =
               Append(last.pre.stack,
                      [instance |-> last.args[1], block |-> CallBlock,
                       return_to_block |-> last.target,
                       arg |-> last.args[2]])
          /\ last.target # NoBlock
    /\ (CatchCall /\ ArgCount(last.args[1]) = 0) =>
          /\ last.err = "AbiViolation"
          /\ ~last.resumed
    /\ last.sym = "<return>" =>
          /\ last.resumed
          /\ last.target # NoBlock
          /\ CallerFrame.block = last.target

\* the shim called from main with a one-argument function, data 9 and
\* resumption point 2
C30_Witness ==
    /\ CatchCall
    /\ last.args = <<GuestFn(1), Raw(9)>>
    /\ last.target = 2
    /\ last.err = ""
    /\ Len(ecx.stack) = 2
    /\ CallerFrame.return_to_block = 2
    /\ CallerFrame.arg = Raw(9)
    /\ ecx.stack[1].block = CallBlock


---------------------------------------------------------------------------
(* Failed key creation (SpecTls).                                          *)

\* the failures that come after create_tls_key: the key does not fit the
\* key type, or the key location cannot be written
FailedAfterCreate ==
    /\ KeyCall
    /\ last.err \in {"OutOfTls", "InvalidNullPointerUsage",
                     "DanglingPointerDeref"}
\* the failures of pthread_key_create that come before it: the destructor
\* is an integer, or the first argument is declared as no raw pointer
FailedBeforeCreate ==
    /\ KeyCall
    /\ last.err \in {"ReadBytesAsPointer", "AbiViolation"}
\* the destructor registered by the call
KeyDtor ==
    IF last.sym = "TlsAlloc" \/ last.args[2] = Null THEN "None" ELSE "Some"

\* C31 as stated: a pthread_key_create or TlsAlloc that fails leaves the
\* table of keys and destructors as it was.
C31_FailedKeyLeavesTable ==
    (KeyCall /\ last.err # "") => tls = last.pre.tls

\* C31 (amended): a failure that is found before the key is created (an
\* integer as destructor, a first argument that is no raw pointer) leaves
\* the table unchanged.  A failure with OutOfTls, or because the key
\* location is not writable, comes after create_tls_key: the table then
\* holds the new key with its destructor and the next key id is one
\* higher, although no key was handed to the guest.
C31_FailedKeyConsumed ==
    /\ FailedBeforeCreate => tls = last.pre.tls
    /\ FailedAfterCreate =>
          /\ tls.next_key = last.pre.tls.next_key + 1
          /\ tls.keys = Insert(last.pre.tls.keys, NewKey,
                               [data |-> Null, dtor |-> KeyDtor])
          /\ KeyHanded = NoVal
    /\ (KeyCall /\ last.err # "") =>
          FailedBeforeCreate \/ FailedAfterCreate

\* TlsAlloc failed with OutOfTls for an 8-bit key type and key 256 is
\* registered
C31_Witness ==
    /\ last.sym = "TlsAlloc"
    /\ KeyBits = 8
    /\ last.err = "OutOfTls"
    /\ last.pre.tls.next_key = 256
    /\ tls.next_key = 257
    /\ 256 \in DOMAIN tls.keys




---------------------------------------------------------------------------
(* calloc's size (SpecCalloc).                                             *)

\* a calloc call of SpecCalloc, and the mathematical product of its
\* arguments
CallocCall == last.sym = "calloc"
CallocProduct ==
    Wide(last.args[1].mant * last.args[2].mant,
         last.args[1].exp + last.args[2].exp)
\* the allocation the call created has exactly CallocProduct bytes
CallocAllocated ==
    /\ last.ret = Ptr(PreMemory.next_id, 0)
    /\ Live(memory) = PreLive \cup {PreMemory.next_id}
    /\ LET alloc == memory.alloc_map[PreMemory.next_id]
       IN  IF Materialised(CallocProduct)
           THEN Len(alloc.bytes) = Written(CallocProduct)
           ELSE alloc.size = CallocProduct

\* C32: calloc(items, len) returns null when items * len is 0, fails with
\* Overflow and creates no allocation when items * len is not below 2^32
\* (the target's usize has 32 bits), and otherwise creates an allocation
\* of exactly items * len bytes.
C32_CallocNeverWraps ==
    CallocCall =>
      /\ CallocProduct.mant = 0 =>
            Returned(Null) /\ memory = PreMemory
      /\ ~FitsBits(CallocProduct, 8 * PointerSize) =>
            /\ last.err = "Overflow"
            /\ memory = PreMemory
      /\ (CallocProduct.mant # 0
          /\ FitsBits(CallocProduct, 8 * PointerSize)) =>
            last.err = "" /\ CallocAllocated


---------------------------------------------------------------------------
(* Failed allocator calls (Spec).                                          *)

\* the entry points that only allocate, and those that reallocate
AllocOnly ==
    {"malloc", "calloc", "HeapAlloc", "__rust_alloc", "__rust_alloc_zeroed"}
ReallocFamily == {"realloc", "HeapReAlloc", "__rust_realloc"}
AllocatorSyms == AllocOnly \cup ReallocFamily \cup {"posix_memalign"}
\* the id the next allocation of the call gets
NewId == PreMemory.next_id
\* the allocation a reallocating call was given
OldId ==
    IF last.sym = "HeapReAlloc" THEN last.args[3].id ELSE last.args[1].id
\* posix_memalign got past the checks of the alignment and failed when it
\* wrote the pointer through its first argument
OutPointerWriteFailed ==
    /\ last.sym = "posix_memalign"
    /\ last.err \notin {"", "HeapAllocNonPowerOfTwoAlignment",
                        "MachineError"}

====
